---- MODULE Spec2Model ----
(***************************************************************************)
(* Guardrail (admission control) layer and audit trail of the calendar /   *)
(* tasks / mail command server: GuardrailContext, the mutating handlers of *)
(* tasks.ts, calendar.ts and gmail.ts, and the audit sink they write to.   *)
(*                                                                         *)
(* Three specifications share the state:                                     *)
(*   SpecG    the public methods of one GuardrailContext, called directly  *)
(*            (as the unit tests call them), with a clock that advances;   *)
(*   Spec     the command handlers, two commands dispatched concurrently   *)
(*            by the host, each suspended at its awaits (remote calls,     *)
(*            audit.log);                                                  *)
(*   SpecSeq  the same handlers, MaxOps commands run one after another.    *)
(***************************************************************************)
EXTENDS Integers, Sequences, FiniteSets, TLC

VARIABLES
    config,      \* GuardrailConfig, fixed at construction
    guardrails,  \* the mutable fields of GuardrailContext
    now,         \* wall clock, in ticks (TicksPerDay ticks to a UTC day)
    last,        \* SpecG: the latest event: the method called, its argument and outcome
    pc,          \* Spec: per command slot, where its handler is suspended
    op,          \* Spec: per command slot, the command being handled
    trace,       \* Spec: per command slot, the steps its handler has taken so far
    charged,     \* Spec: per command slot, the cost this command has committed
    entry,       \* Spec: per command slot, the audit entry handed to audit.log
    result,      \* Spec: per command slot, the ToolResult returned
    auditLog,    \* the audit entries persisted by resolved audit.log calls
                 \* (SpecF: the audit logger and the directory it writes to)
    started      \* Spec: number of commands dispatched so far

vars == <<config, guardrails, now, last, pc, op, trace, charged, entry, result,
          auditLog, started>>

handlerVars == <<pc, op, trace, charged, entry, result, auditLog, started>>

----------------------------------------------------------------------------
\* Bounds of the model.

\* Ticks of the model clock per UTC day (the resolution of the clock).
TicksPerDay == 2
\* The clock runs from 0 to MaxNow.
MaxNow == 2
\* Largest configured daily limit drawn at construction; SpecG drives no counter
\* higher than this by direct increment calls.
MaxLimit == 2
\* SpecSeq: commands issued, one after another, in one run.
MaxOps == 2

\* Program constants.
DefaultSendLimit == 5
DefaultModifyLimit == 100
DefaultMaxAttachmentMB == 10
BytesPerMB == 1048576

----------------------------------------------------------------------------
\* Configuration (GuardrailConfig, GmailGuardrailConfig).

\* The optional gmail sub-record: absent, or present with its fields.
NoGmail == [ present |-> FALSE ]

GmailConfigs ==
    { [ present |-> TRUE,
        dailySendLimit |-> s, dailyModifyLimit |-> m, maxAttachmentSizeMB |-> 1,
        blockedAttachmentTypes |-> {"application/x-msdownload"},
        requireApprovalForSend |-> TRUE ] : s \in 1..MaxLimit, m \in {1} }

\* The configurations the handler specifications start from.
HandlerGmailConfig ==
    [ present |-> TRUE, dailySendLimit |-> 1, dailyModifyLimit |-> 1,
      maxAttachmentSizeMB |-> 1,
      blockedAttachmentTypes |-> {"application/x-msdownload"},
      requireApprovalForSend |-> TRUE ]

HandlerConfigs ==
    { [ dailyWriteLimit |-> w, pastEventProtectionDays |-> 1,
        protectedCalendars |-> {"holidays"}, protectedTaskLists |-> {"P"},
        allowRecurringSeriesDelete |-> a, gmail |-> HandlerGmailConfig ] :
        w \in 0..MaxLimit, a \in BOOLEAN }

\* The configurations SpecG starts from.
GuardrailConfigs ==
    { [ dailyWriteLimit |-> w, pastEventProtectionDays |-> 1,
        protectedCalendars |-> {"holidays"}, protectedTaskLists |-> {"P"},
        allowRecurringSeriesDelete |-> a, gmail |-> g ] :
        w \in 0..MaxLimit, a \in BOOLEAN, g \in GmailConfigs \cup {NoGmail} }

----------------------------------------------------------------------------
\* GuardrailContext.

\* todayUTC(): the UTC calendar day of the clock.
todayUTC(t) == t \div TicksPerDay

\* The state after construction: counters 0, stored date today.
NewGuardrailContext(t) ==
    [ writeCount |-> 0, gmailSendCount |-> 0, gmailModifyCount |-> 0,
      writeCountDate |-> todayUTC(t) ]

\* A faulty ensureDateCurrent: the mail counters are left out of the reset.
ensureDateCurrentWriteOnly(g, t) ==
    IF g.writeCountDate # todayUTC(t)
    THEN [g EXCEPT !.writeCount = 0, !.writeCountDate = todayUTC(t)]
    ELSE g

\* A faulty ensureDateCurrent: the date is advanced but the counters are kept.
ensureDateCurrentKeepsCounts(g, t) ==
    IF g.writeCountDate # todayUTC(t)
    THEN [g EXCEPT !.writeCountDate = todayUTC(t)]
    ELSE g

\* ensureDateCurrent(): on a date change reset all three counters.
ensureDateCurrent(g, t) ==
    IF g.writeCountDate # todayUTC(t)
    THEN [ writeCount |-> 0, gmailSendCount |-> 0, gmailModifyCount |-> 0,
           writeCountDate |-> todayUTC(t) ]
    ELSE g

\* Every public method is modelled as the pair it leaves behind: g, the fields
\* after the call, and outcome, "OK" or the code of the GuardrailError thrown.

\* A faulty checkWriteLimit: reaching the limit exactly is rejected too.
checkWriteLimitOffByOne(cfg, g, t, cost) ==
    LET g1 == ensureDateCurrent(g, t)
    IN  [ g |-> g1,
          outcome |-> IF g1.writeCount + cost >= cfg.dailyWriteLimit
                      THEN "DAILY_LIMIT_REACHED" ELSE "OK" ]

\* A faulty checkWriteLimit: the cost is reserved before the comparison and the
\* reservation is not undone when the check throws.
checkWriteLimitReserving(cfg, g, t, cost) ==
    LET g1 == ensureDateCurrent(g, t)
        g2 == [g1 EXCEPT !.writeCount = @ + cost]
    IN  IF g2.writeCount > cfg.dailyWriteLimit
        THEN [ g |-> g2, outcome |-> "DAILY_LIMIT_REACHED" ]
        ELSE [ g |-> g1, outcome |-> "OK" ]

\* A faulty checkWriteLimit: the cost of the operation is left out of the sum.
checkWriteLimitIgnoringCost(cfg, g, t, cost) ==
    LET g1 == ensureDateCurrent(g, t)
    IN  [ g |-> g1,
          outcome |-> IF g1.writeCount >= cfg.dailyWriteLimit
                      THEN "DAILY_LIMIT_REACHED" ELSE "OK" ]

\* config.dailyWriteLimit when the parsed file has no such property: undefined,
\* to which every number compares false.
NoLimit == -1

checkWriteLimit(cfg, g, t, cost) ==
    LET g1 == ensureDateCurrent(g, t)
    IN  [ g |-> g1,
          outcome |-> IF /\ cfg.dailyWriteLimit # NoLimit
                         /\ g1.writeCount + cost > cfg.dailyWriteLimit
                      THEN "DAILY_LIMIT_REACHED" ELSE "OK" ]

checkProtectedCalendar(cfg, g, calendarId) ==
    [ g |-> g,
      outcome |-> IF calendarId \in cfg.protectedCalendars
                  THEN "PROTECTED_RESOURCE" ELSE "OK" ]

checkProtectedTaskList(cfg, g, taskListId) ==
    [ g |-> g,
      outcome |-> IF taskListId \in cfg.protectedTaskLists
                  THEN "PROTECTED_RESOURCE" ELSE "OK" ]

\* A faulty checkPastEventProtection: an event exactly at the threshold is exempt.
checkPastEventProtectionExclusive(cfg, g, t, eventEndTime) ==
    [ g |-> g,
      outcome |-> IF t - eventEndTime > cfg.pastEventProtectionDays * TicksPerDay
                  THEN "PAST_EVENT_PROTECTED" ELSE "OK" ]

\* diffDays >= pastEventProtectionDays, where diffDays = (now - end) / (ticks per day).
checkPastEventProtection(cfg, g, t, eventEndTime) ==
    [ g |-> g,
      outcome |-> IF t - eventEndTime >= cfg.pastEventProtectionDays * TicksPerDay
                  THEN "PAST_EVENT_PROTECTED" ELSE "OK" ]

\* event.recurrence is the number of recurrence rules, NoRecurrence when the field
\* is absent; event.recurringEventId is a string, NoId when the field is absent.
NoRecurrence == -1

NoId == "undefined"

Truthy(str) == str # NoId /\ str # ""

\* A faulty checkRecurringSeriesDelete: the parent series of an instance is not
\* looked at.
checkRecurringSeriesDeleteIgnoringParent(cfg, g, event) ==
    LET isSeriesMaster == /\ event.recurrence # NoRecurrence
                          /\ event.recurrence > 0
    IN  [ g |-> g,
          outcome |-> IF ~cfg.allowRecurringSeriesDelete /\ isSeriesMaster
                      THEN "RECURRING_SERIES_BLOCKED" ELSE "OK" ]

checkRecurringSeriesDelete(cfg, g, event) ==
    LET isSeriesMaster == /\ event.recurrence # NoRecurrence
                          /\ event.recurrence > 0
                          /\ ~Truthy(event.recurringEventId)
    IN  [ g |-> g,
          outcome |-> IF ~cfg.allowRecurringSeriesDelete /\ isSeriesMaster
                      THEN "RECURRING_SERIES_BLOCKED" ELSE "OK" ]

\* this.config.gmail?.field ?? default: the field of the gmail sub-record, the
\* default when the sub-record or the field is absent.
OrDefault(gmail, field, default) ==
    IF field \in DOMAIN gmail THEN gmail[field] ELSE default

\* A faulty checkGmailSendLimit: a send that is admitted is counted by the check.
checkGmailSendLimitReserving(cfg, g, t, cost) ==
    LET g1 == ensureDateCurrent(g, t)
        limit == OrDefault(cfg.gmail, "dailySendLimit", DefaultSendLimit)
    IN  IF g1.gmailSendCount + cost > limit
        THEN [ g |-> g1, outcome |-> "SEND_LIMIT_REACHED" ]
        ELSE [ g |-> [g1 EXCEPT !.gmailSendCount = @ + cost], outcome |-> "OK" ]

\* A faulty checkGmailSendLimit: reaching the limit exactly is rejected too.
checkGmailSendLimitOffByOne(cfg, g, t, cost) ==
    LET g1 == ensureDateCurrent(g, t)
        limit == OrDefault(cfg.gmail, "dailySendLimit", DefaultSendLimit)
    IN  [ g |-> g1,
          outcome |-> IF g1.gmailSendCount + cost >= limit
                      THEN "SEND_LIMIT_REACHED" ELSE "OK" ]

checkGmailSendLimit(cfg, g, t, cost) ==
    LET g1 == ensureDateCurrent(g, t)
        limit == OrDefault(cfg.gmail, "dailySendLimit", DefaultSendLimit)
    IN  [ g |-> g1,
          outcome |-> IF g1.gmailSendCount + cost > limit
                      THEN "SEND_LIMIT_REACHED" ELSE "OK" ]

\* A faulty checkGmailModifyLimit: the send default stands in for the modify
\* default.
checkGmailModifyLimitSendDefault(cfg, g, t, cost) ==
    LET g1 == ensureDateCurrent(g, t)
        limit == OrDefault(cfg.gmail, "dailyModifyLimit", DefaultSendLimit)
    IN  [ g |-> g1,
          outcome |-> IF g1.gmailModifyCount + cost > limit
                      THEN "DAILY_LIMIT_REACHED" ELSE "OK" ]

checkGmailModifyLimit(cfg, g, t, cost) ==
    LET g1 == ensureDateCurrent(g, t)
        limit == OrDefault(cfg.gmail, "dailyModifyLimit", DefaultModifyLimit)
    IN  [ g |-> g1,
          outcome |-> IF g1.gmailModifyCount + cost > limit
                      THEN "DAILY_LIMIT_REACHED" ELSE "OK" ]

checkAttachmentSize(cfg, g, sizeBytes) ==
    LET limitMB == OrDefault(cfg.gmail, "maxAttachmentSizeMB", DefaultMaxAttachmentMB)
    IN  [ g |-> g,
          outcome |-> IF sizeBytes > limitMB * BytesPerMB
                      THEN "ATTACHMENT_TOO_LARGE" ELSE "OK" ]

checkAttachmentType(cfg, g, mimeType) ==
    LET blocked == OrDefault(cfg.gmail, "blockedAttachmentTypes", {})
    IN  [ g |-> g,
          outcome |-> IF mimeType \in blocked
                      THEN "BLOCKED_ATTACHMENT_TYPE" ELSE "OK" ]

\* A faulty incrementGmailSendCounter: the date is not compared first.
incrementGmailSendCounterNoDateCheck(g, t, cost) ==
    [ g |-> [g EXCEPT !.gmailSendCount = @ + cost], outcome |-> "OK" ]

incrementGmailSendCounter(g, t, cost) ==
    LET g1 == ensureDateCurrent(g, t)
    IN  [ g |-> [g1 EXCEPT !.gmailSendCount = @ + cost], outcome |-> "OK" ]

incrementGmailModifyCounter(g, t, cost) ==
    LET g1 == ensureDateCurrent(g, t)
    IN  [ g |-> [g1 EXCEPT !.gmailModifyCount = @ + cost], outcome |-> "OK" ]

\* A faulty increment: the cost is added first and the date is checked after, so
\* that a commit on a new day is wiped with the old day's count.
incrementWriteCounterResettingLast(g, t, cost) ==
    [ g |-> ensureDateCurrent([g EXCEPT !.writeCount = @ + cost], t), outcome |-> "OK" ]

\* A faulty increment: the cost is stored instead of added.
incrementWriteCounterAssigning(g, t, cost) ==
    LET g1 == ensureDateCurrent(g, t)
    IN  [ g |-> [g1 EXCEPT !.writeCount = cost], outcome |-> "OK" ]

incrementWriteCounter(g, t, cost) ==
    LET g1 == ensureDateCurrent(g, t)
    IN  [ g |-> [g1 EXCEPT !.writeCount = @ + cost], outcome |-> "OK" ]

getWriteCount(g) == g.writeCount

\* resetForTesting()
resetForTesting(g, t) ==
    [ g |-> NewGuardrailContext(t), outcome |-> "OK" ]

\* setDateForTesting(dateStr)
setDateForTesting(g, date) ==
    [ g |-> [g EXCEPT !.writeCountDate = date], outcome |-> "OK" ]

----------------------------------------------------------------------------
\* Command slots of the host transport: two commands can be in flight at once.
Slots == {"c1", "c2"}

\* A command goes to the first free slot.
FirstSlot == "c1"

NoCall == [ fn |-> "none" ]

NoCommand == [ name |-> "none" ]

NoEntry == [ operation |-> "none" ]

NoResult == [ isError |-> FALSE, code |-> "none" ]

NoEnd == -1

NoData == [ end |-> NoEnd, recurrence |-> NoRecurrence, recurringEventId |-> NoId ]

\* The process after start-up: the configuration is loaded once, the context is
\* constructed at the current time, no command is in flight, the audit log is empty.
Start(configs) ==
    /\ config \in configs
    /\ now = 0
    /\ guardrails = NewGuardrailContext(0)
    /\ last = NoCall
    /\ pc = [p \in Slots |-> "idle"]
    /\ op = [p \in Slots |-> NoCommand]
    /\ trace = [p \in Slots |-> <<>>]
    /\ charged = [p \in Slots |-> 0]
    /\ entry = [p \in Slots |-> NoEntry]
    /\ result = [p \in Slots |-> NoResult]
    /\ auditLog = <<>>
    /\ started = 0

InitG == Start(GuardrailConfigs)

Init == Start(HandlerConfigs)

\* The wall clock advances.
Tick ==
    /\ now < MaxNow
    /\ now' = now + 1
    /\ last' = NoCall
    /\ UNCHANGED <<config, guardrails, handlerVars>>

----------------------------------------------------------------------------
\* SpecG: the public methods of GuardrailContext called directly.

Costs == {1, 2}

CalendarIds == {"primary", "holidays"}

TaskListIds == {"P", "L"}

EndTimes == 0..MaxNow

Events == [ recurrence : {NoRecurrence, 0, 1},
            recurringEventId : {NoId, "", "master"} ]

Sizes == { BytesPerMB, DefaultMaxAttachmentMB * BytesPerMB + 1 }

MimeTypes == {"application/x-msdownload", "APPLICATION/X-MSDOWNLOAD", "text/plain"}

Dates == 0..todayUTC(MaxNow)

\* One call of method fn with argument arg, r being what the method leaves.
Call(fn, arg, r) ==
    /\ guardrails' = r.g
    /\ last' = [ fn |-> fn, arg |-> arg, outcome |-> r.outcome,
                 stale |-> guardrails.writeCountDate # todayUTC(now),
                 before |-> guardrails ]
    /\ UNCHANGED <<config, now, handlerVars>>

CallCheckWriteLimit ==
    \E cost \in Costs :
        Call("checkWriteLimit", cost, checkWriteLimit(config, guardrails, now, cost))

CallCheckProtectedCalendar ==
    \E id \in CalendarIds :
        Call("checkProtectedCalendar", id, checkProtectedCalendar(config, guardrails, id))

CallCheckProtectedTaskList ==
    \E id \in TaskListIds :
        Call("checkProtectedTaskList", id, checkProtectedTaskList(config, guardrails, id))

CallCheckPastEventProtection ==
    \E end \in EndTimes :
        Call("checkPastEventProtection", end,
             checkPastEventProtection(config, guardrails, now, end))

CallCheckRecurringSeriesDelete ==
    \E event \in Events :
        Call("checkRecurringSeriesDelete", event,
             checkRecurringSeriesDelete(config, guardrails, event))

CallCheckGmailSendLimit ==
    \E cost \in Costs :
        Call("checkGmailSendLimit", cost,
             checkGmailSendLimit(config, guardrails, now, cost))

CallCheckGmailModifyLimit ==
    \E cost \in Costs :
        Call("checkGmailModifyLimit", cost,
             checkGmailModifyLimit(config, guardrails, now, cost))

CallCheckAttachmentSize ==
    \E size \in Sizes :
        Call("checkAttachmentSize", size, checkAttachmentSize(config, guardrails, size))

CallCheckAttachmentType ==
    \E mime \in MimeTypes :
        Call("checkAttachmentType", mime, checkAttachmentType(config, guardrails, mime))

CallIncrementWriteCounter ==
    \E cost \in Costs :
        LET r == incrementWriteCounter(guardrails, now, cost)
        IN  r.g.writeCount <= MaxLimit /\ Call("incrementWriteCounter", cost, r)

CallIncrementGmailSendCounter ==
    \E cost \in Costs :
        LET r == incrementGmailSendCounter(guardrails, now, cost)
        IN  r.g.gmailSendCount <= MaxLimit /\ Call("incrementGmailSendCounter", cost, r)

CallIncrementGmailModifyCounter ==
    \E cost \in Costs :
        LET r == incrementGmailModifyCounter(guardrails, now, cost)
        IN  r.g.gmailModifyCount <= MaxLimit
            /\ Call("incrementGmailModifyCounter", cost, r)

CallResetForTesting ==
    Call("resetForTesting", 0, resetForTesting(guardrails, now))

CallSetDateForTesting ==
    \E date \in Dates :
        Call("setDateForTesting", date, setDateForTesting(guardrails, date))

NextG ==
    \/ Tick
    \/ CallCheckWriteLimit
    \/ CallCheckProtectedCalendar
    \/ CallCheckProtectedTaskList
    \/ CallCheckPastEventProtection
    \/ CallCheckRecurringSeriesDelete
    \/ CallCheckGmailSendLimit
    \/ CallCheckGmailModifyLimit
    \/ CallCheckAttachmentSize
    \/ CallCheckAttachmentType
    \/ CallIncrementWriteCounter
    \/ CallIncrementGmailSendCounter
    \/ CallIncrementGmailModifyCounter
    \/ CallResetForTesting
    \/ CallSetDateForTesting

SpecG == InitG /\ [][NextG]_vars

----------------------------------------------------------------------------
\* SpecL: the limit checks of a GuardrailContext whose counters stand anywhere
\* from 0 to just beyond the built-in default limits, under configurations with
\* and without the gmail sub-record, and under a guardrails.json written as the
\* README documents it (gmail.sendRequiresApproval, gmail.maxSendsPerDay).

DocumentedGmailConfigs ==
    { [ present |-> TRUE, sendRequiresApproval |-> TRUE, maxSendsPerDay |-> n ] :
          n \in 1..MaxLimit }

LimitConfigs ==
    { [ dailyWriteLimit |-> MaxLimit, pastEventProtectionDays |-> 1,
        protectedCalendars |-> {"holidays"}, protectedTaskLists |-> {"P"},
        allowRecurringSeriesDelete |-> FALSE, gmail |-> g ] :
        g \in GmailConfigs \cup DocumentedGmailConfigs \cup {NoGmail} }

\* Counter values around the default limits.
SendCounts == 0..(DefaultSendLimit + 1)

ModifyCounts == {0} \cup ((DefaultModifyLimit - 2)..(DefaultModifyLimit + 1))

InitL ==
    /\ config \in LimitConfigs
    /\ now = 0
    /\ guardrails \in { [ writeCount |-> 0, gmailSendCount |-> s,
                          gmailModifyCount |-> m, writeCountDate |-> todayUTC(0) ] :
                            s \in SendCounts, m \in ModifyCounts }
    /\ last = NoCall
    /\ pc = [p \in Slots |-> "idle"]
    /\ op = [p \in Slots |-> NoCommand]
    /\ trace = [p \in Slots |-> <<>>]
    /\ charged = [p \in Slots |-> 0]
    /\ entry = [p \in Slots |-> NoEntry]
    /\ result = [p \in Slots |-> NoResult]
    /\ auditLog = <<>>
    /\ started = 0

NextL ==
    \/ Tick
    \/ CallCheckWriteLimit
    \/ CallCheckGmailSendLimit
    \/ CallCheckGmailModifyLimit

SpecL == InitL /\ [][NextL]_vars

----------------------------------------------------------------------------
\* Errors (errors.ts) and tool results (types.ts).

\* A faulty mapping: 429 gets a code of its own.
apiErrorRateLimited(status) ==
    IF status = 401 THEN "AUTH_EXPIRED"
    ELSE IF status = 404 THEN "NOT_FOUND"
    ELSE IF status = 429 THEN "RATE_LIMITED"
    ELSE "API_ERROR"

\* apiError(status, message): the code of the structured error.
apiError(status) ==
    IF status = 401 THEN "AUTH_EXPIRED"
    ELSE IF status = 404 THEN "NOT_FOUND"
    ELSE "API_ERROR"

successResult == [ isError |-> FALSE, code |-> "OK" ]

errorResult(code) == [ isError |-> TRUE, code |-> code ]

\* What a remote call can throw: a gaxios error with or without a response
\* status, or any other exception.
RemoteErrors ==
    { [ kind |-> "gaxios", hasStatus |-> TRUE, status |-> st ] :
          st \in {401, 404, 429, 500} }
    \cup { [ kind |-> "gaxios", hasStatus |-> FALSE, status |-> 0 ],
           [ kind |-> "other", hasStatus |-> FALSE, status |-> 0 ] }

\* A faulty withErrorHandling: only errors of the HTTP client are caught, any
\* other exception leaves the handler as it was thrown.
withErrorHandlingRethrowing(err) ==
    IF err.kind = "gaxios"
    THEN errorResult(apiError(IF err.hasStatus THEN err.status ELSE 500))
    ELSE [ isError |-> TRUE, code |-> "uncaught" ]

\* The catch clause of withErrorHandling for what a remote call threw.
withErrorHandling(err) ==
    IF err.kind = "gaxios"
    THEN errorResult(apiError(IF err.hasStatus THEN err.status ELSE 500))
    ELSE errorResult("API_ERROR")

----------------------------------------------------------------------------
\* The mutating handlers of tasks.ts, calendar.ts and gmail.ts.

\* A command: the handler's name and the list or calendar it names (target), and
\* for moveTask the destination list (dest).
Command(name, target, dest) == [ name |-> name, target |-> target, dest |-> dest ]

Commands ==
    { Command("createTask", l, "") : l \in TaskListIds \cup {NoId} }
    \cup { Command(n, l, "") :
               n \in {"updateTask", "deleteTask", "completeTask"}, l \in TaskListIds }
    \cup { Command("moveTask", l, d) : l \in TaskListIds, d \in TaskListIds }
    \cup { Command(n, c, "") :
               n \in {"createEvent", "updateEvent", "deleteEvent"}, c \in CalendarIds }
    \cup { Command(n, "", "") : n \in {"modifyMessage", "createLabel", "sendMessage"} }

\* resolveListId(taskListId)
resolveListId(taskListId) == IF taskListId = NoId THEN "@default" ELSE taskListId

\* A check that throws ends the handler: the later checks are not run.
OrElse(r1, r2) == IF r1.outcome # "OK" THEN r1 ELSE r2

\* The policy checks each handler runs before its first remote call.

createTaskChecks(cfg, g, t, cmd) ==
    LET listId == resolveListId(cmd.target)
        r1 == checkWriteLimit(cfg, g, t, 1)
        r2 == checkProtectedTaskList(cfg, r1.g, listId)
    IN  OrElse(r1, r2)

updateTaskChecks(cfg, g, t, cmd) ==
    LET r1 == checkWriteLimit(cfg, g, t, 1)
        r2 == checkProtectedTaskList(cfg, r1.g, cmd.target)
    IN  OrElse(r1, r2)

deleteTaskChecks(cfg, g, t, cmd) ==
    LET r1 == checkWriteLimit(cfg, g, t, 1)
        r2 == checkProtectedTaskList(cfg, r1.g, cmd.target)
    IN  OrElse(r1, r2)

completeTaskChecks(cfg, g, t, cmd) ==
    LET r1 == checkWriteLimit(cfg, g, t, 1)
        r2 == checkProtectedTaskList(cfg, r1.g, cmd.target)
    IN  OrElse(r1, r2)

\* A faulty moveTask: the move is checked as a single write.
moveTaskChecksCostOne(cfg, g, t, cmd) ==
    LET r1 == checkWriteLimit(cfg, g, t, 1)
        r2 == checkProtectedTaskList(cfg, r1.g, cmd.target)
        r3 == checkProtectedTaskList(cfg, r2.g, cmd.dest)
    IN  OrElse(r1, OrElse(r2, r3))

\* A faulty moveTask: the destination list is not checked.
moveTaskChecksSourceOnly(cfg, g, t, cmd) ==
    LET r1 == checkWriteLimit(cfg, g, t, 2)
        r2 == checkProtectedTaskList(cfg, r1.g, cmd.target)
    IN  OrElse(r1, r2)

moveTaskChecks(cfg, g, t, cmd) ==
    LET r1 == checkWriteLimit(cfg, g, t, 2)
        r2 == checkProtectedTaskList(cfg, r1.g, cmd.target)
        r3 == checkProtectedTaskList(cfg, r2.g, cmd.dest)
    IN  OrElse(r1, OrElse(r2, r3))

createEventChecks(cfg, g, t, cmd) ==
    LET r1 == checkWriteLimit(cfg, g, t, 1)
        r2 == checkProtectedCalendar(cfg, r1.g, cmd.target)
    IN  OrElse(r1, r2)

updateEventChecks(cfg, g, t, cmd) ==
    LET r1 == checkWriteLimit(cfg, g, t, 1)
        r2 == checkProtectedCalendar(cfg, r1.g, cmd.target)
    IN  OrElse(r1, r2)

deleteEventChecks(cfg, g, t, cmd) ==
    LET r1 == checkWriteLimit(cfg, g, t, 1)
        r2 == checkProtectedCalendar(cfg, r1.g, cmd.target)
    IN  OrElse(r1, r2)

modifyMessageChecks(cfg, g, t, cmd) == checkGmailModifyLimit(cfg, g, t, 1)

createLabelChecks(cfg, g, t, cmd) == checkWriteLimit(cfg, g, t, 1)

sendMessageChecks(cfg, g, t, cmd) == checkGmailSendLimit(cfg, g, t, 1)

PreChecks(cfg, g, t, cmd) ==
    CASE cmd.name = "createTask"    -> createTaskChecks(cfg, g, t, cmd)
      [] cmd.name = "updateTask"    -> updateTaskChecks(cfg, g, t, cmd)
      [] cmd.name = "deleteTask"    -> deleteTaskChecks(cfg, g, t, cmd)
      [] cmd.name = "completeTask"  -> completeTaskChecks(cfg, g, t, cmd)
      [] cmd.name = "moveTask"      -> moveTaskChecks(cfg, g, t, cmd)
      [] cmd.name = "createEvent"   -> createEventChecks(cfg, g, t, cmd)
      [] cmd.name = "updateEvent"   -> updateEventChecks(cfg, g, t, cmd)
      [] cmd.name = "deleteEvent"   -> deleteEventChecks(cfg, g, t, cmd)
      [] cmd.name = "modifyMessage" -> modifyMessageChecks(cfg, g, t, cmd)
      [] cmd.name = "createLabel"   -> createLabelChecks(cfg, g, t, cmd)
      [] cmd.name = "sendMessage"   -> sendMessageChecks(cfg, g, t, cmd)

\* The remote API calls each handler awaits, in order.  The last one is the
\* mutation (for moveTask the last two: insert, then delete).
RemoteCalls(name) ==
    CASE name = "createTask"    -> << "tasks.insert" >>
      [] name = "updateTask"    -> << "tasks.get", "tasks.patch" >>
      [] name = "deleteTask"    -> << "tasks.get", "tasks.delete" >>
      [] name = "completeTask"  -> << "tasks.patch" >>
      [] name = "moveTask"      -> << "tasks.get", "tasks.insert", "tasks.delete" >>
      [] name = "createEvent"   -> << "events.insert" >>
      [] name = "updateEvent"   -> << "events.get", "events.patch" >>
      [] name = "deleteEvent"   -> << "events.get", "events.delete" >>
      [] name = "modifyMessage" -> << "messages.modify" >>
      [] name = "createLabel"   -> << "labels.create" >>
      [] name = "sendMessage"   -> << "messages.send" >>

\* The remote calls that read and change nothing.
ReadCalls == {"tasks.get", "events.get"}

\* What events.get returns of the existing event: its end time (NoEnd when it has
\* none), its recurrence rules and its parent-series reference.
ExistingEvents ==
    [ end : EndTimes \cup {NoEnd},
      recurrence : {NoRecurrence, 0, 1},
      recurringEventId : {NoId, "master"} ]

\* The policy checks run on the event that events.get returned.

updateEventFetchedChecks(cfg, g, t, existing) ==
    IF existing.end # NoEnd
    THEN checkPastEventProtection(cfg, g, t, existing.end)
    ELSE [ g |-> g, outcome |-> "OK" ]

\* A faulty deleteEvent: the recurring-series check is left out.
deleteEventFetchedChecksNoSeriesCheck(cfg, g, t, existing) ==
    IF existing.end # NoEnd
    THEN checkPastEventProtection(cfg, g, t, existing.end)
    ELSE [ g |-> g, outcome |-> "OK" ]

deleteEventFetchedChecks(cfg, g, t, existing) ==
    LET r1 == IF existing.end # NoEnd
              THEN checkPastEventProtection(cfg, g, t, existing.end)
              ELSE [ g |-> g, outcome |-> "OK" ]
        r2 == checkRecurringSeriesDelete(cfg, r1.g,
                  [ recurrence |-> existing.recurrence,
                    recurringEventId |-> existing.recurringEventId ])
    IN  OrElse(r1, r2)

\* The checks a handler runs when its k-th remote call has returned data.
FetchedChecks(cfg, g, t, cmd, k, data) ==
    IF cmd.name = "updateEvent" /\ k = 1
    THEN updateEventFetchedChecks(cfg, g, t, data)
    ELSE IF cmd.name = "deleteEvent" /\ k = 1
    THEN deleteEventFetchedChecks(cfg, g, t, data)
    ELSE [ g |-> g, outcome |-> "OK" ]

\* The cost a handler commits once its last remote call has succeeded.
CommitCost(name) == IF name = "moveTask" THEN 2 ELSE 1

\* A faulty commit: mail sends are charged to the shared write counter as well.
CommitSendAsWrite(g, t, cmd) ==
    CASE cmd.name = "sendMessage" ->
             LET r == incrementGmailSendCounter(g, t, CommitCost(cmd.name))
             IN  [ r EXCEPT !.g.writeCount = @ + CommitCost(cmd.name) ]
      [] cmd.name = "modifyMessage" -> incrementGmailModifyCounter(g, t, CommitCost(cmd.name))
      [] OTHER                      -> incrementWriteCounter(g, t, CommitCost(cmd.name))

\* The counter commit of each handler.
Commit(g, t, cmd) ==
    CASE cmd.name = "sendMessage"   -> incrementGmailSendCounter(g, t, CommitCost(cmd.name))
      [] cmd.name = "modifyMessage" -> incrementGmailModifyCounter(g, t, CommitCost(cmd.name))
      [] OTHER                      -> incrementWriteCounter(g, t, CommitCost(cmd.name))

\* The audit entry each handler builds, as far as its operation and service.
AuditOperation(name) ==
    CASE name \in {"createTask", "moveTask", "createEvent", "createLabel", "sendMessage"}
             -> "create"
      [] name \in {"updateTask", "updateEvent", "modifyMessage"} -> "update"
      [] name \in {"deleteTask", "deleteEvent"} -> "delete"
      [] name = "completeTask" -> "complete"

Service(name) ==
    CASE name \in {"createTask", "updateTask", "deleteTask", "completeTask", "moveTask"}
             -> "tasks"
      [] name \in {"createEvent", "updateEvent", "deleteEvent"} -> "calendar"
      [] name \in {"modifyMessage", "createLabel", "sendMessage"} -> "gmail"

\* The changes field of the entry each handler builds: the fields the update
\* was given, the labels added and removed, the lists moved between, the
\* recipient and subject of the mail sent; the other entries have no such field.
NoChanges == "absent"

Changes(name) ==
    CASE name \in {"updateTask", "updateEvent"} -> "fields given"
      [] name = "modifyMessage" -> "addLabelIds, removeLabelIds"
      [] name = "moveTask"      -> "movedFrom, movedTo"
      [] name = "sendMessage"   -> "to, subject"
      [] OTHER                  -> NoChanges

\* A faulty entry: changes is filled in for update entries alone.
AuditEntryChangesForUpdates(cmd) ==
    [ operation |-> AuditOperation(cmd.name), service |-> Service(cmd.name),
      changes |-> IF AuditOperation(cmd.name) = "update"
                  THEN Changes(cmd.name) ELSE NoChanges ]

AuditEntry(cmd) ==
    [ operation |-> AuditOperation(cmd.name), service |-> Service(cmd.name),
      changes |-> Changes(cmd.name) ]

\* The steps a handler takes, as recorded in trace.
Ev(e, info) == [ e |-> e, info |-> info ]

\* The remote calls a slot has issued, in order.
CallsOf(tr) == SelectSeq(tr, LAMBDA x : x.e = "call")

\* What a remote call can return, as far as the handlers read it.
Responses(api) == IF api = "events.get" THEN ExistingEvents ELSE {NoData}

\* The host dispatches command cmd to slot p: the handler runs its policy checks
\* and, if none throws, issues its first remote call and suspends on it.
Dispatch(p, cmd) ==
    /\ pc[p] = "idle"
    /\ \A q \in Slots : pc[q] = "idle" => p = FirstSlot \/ q # FirstSlot
    /\ started' = started + 1
    /\ op' = [op EXCEPT ![p] = cmd]
    /\ charged' = [charged EXCEPT ![p] = 0]
    /\ entry' = [entry EXCEPT ![p] = NoEntry]
    /\ LET r == PreChecks(config, guardrails, now, cmd)
       IN  /\ guardrails' = r.g
           /\ IF r.outcome = "OK"
              THEN /\ pc' = [pc EXCEPT ![p] = "remote"]
                   /\ trace' = [trace EXCEPT ![p] =
                          << Ev("check", "OK"), Ev("call", RemoteCalls(cmd.name)[1]) >>]
                   /\ result' = [result EXCEPT ![p] = NoResult]
              ELSE /\ pc' = [pc EXCEPT ![p] = "done"]
                   /\ trace' = [trace EXCEPT ![p] = << Ev("check", r.outcome) >>]
                   /\ result' = [result EXCEPT ![p] = errorResult(r.outcome)]
    /\ UNCHANGED <<config, now, last, auditLog>>

\* Whether the handler runs policy checks on what its k-th call returned:
\* updateEvent checks the end time when the event has one, deleteEvent always
\* runs the recurring-series check.
RunsFetchedChecks(cmd, k, data) ==
    /\ k = 1
    /\ \/ cmd.name = "deleteEvent"
       \/ cmd.name = "updateEvent" /\ data.end # NoEnd

\* A faulty handler body: the counter is committed as soon as the checks have
\* passed, before the mutating call is awaited.
ContinueCommitFirst(p, tr, k, data) ==
    LET cmd == op[p]
        r   == FetchedChecks(config, guardrails, now, cmd, k, data)
        tr1 == IF RunsFetchedChecks(cmd, k, data)
               THEN Append(tr, Ev("check", r.outcome)) ELSE tr
    IN  IF r.outcome = "OK"
        THEN /\ guardrails' = Commit(r.g, now, cmd).g
             /\ charged' = [charged EXCEPT ![p] = CommitCost(cmd.name)]
             /\ trace' = [trace EXCEPT ![p] =
                    tr1 \o << Ev("commit", ""), Ev("call", RemoteCalls(cmd.name)[k + 1]) >>]
             /\ UNCHANGED <<pc, result, entry>>
        ELSE /\ guardrails' = r.g
             /\ trace' = [trace EXCEPT ![p] = tr1]
             /\ pc' = [pc EXCEPT ![p] = "done"]
             /\ result' = [result EXCEPT ![p] = errorResult(r.outcome)]
             /\ UNCHANGED <<charged, entry>>

\* A faulty handler body: the verdict of the checks on the fetched event is
\* dropped and the next call is issued all the same.
ContinueIgnoringVerdict(p, tr, k, data) ==
    LET cmd == op[p]
        r   == FetchedChecks(config, guardrails, now, cmd, k, data)
        tr1 == IF RunsFetchedChecks(cmd, k, data)
               THEN Append(tr, Ev("check", r.outcome)) ELSE tr
    IN  /\ guardrails' = r.g
        /\ trace' = [trace EXCEPT ![p] =
               Append(tr1, Ev("call", RemoteCalls(cmd.name)[k + 1]))]
        /\ UNCHANGED <<pc, result, charged, entry>>

\* A remote call other than the handler's last has resolved with data: the
\* handler runs its checks on what was fetched and, if none throws, issues the
\* next call.
Continue(p, tr, k, data) ==
    LET cmd == op[p]
        r   == FetchedChecks(config, guardrails, now, cmd, k, data)
        tr1 == IF RunsFetchedChecks(cmd, k, data)
               THEN Append(tr, Ev("check", r.outcome)) ELSE tr
    IN  /\ guardrails' = r.g
        /\ IF r.outcome = "OK"
           THEN /\ trace' = [trace EXCEPT ![p] =
                       Append(tr1, Ev("call", RemoteCalls(cmd.name)[k + 1]))]
                /\ UNCHANGED <<pc, result>>
           ELSE /\ trace' = [trace EXCEPT ![p] = tr1]
                /\ pc' = [pc EXCEPT ![p] = "done"]
                /\ result' = [result EXCEPT ![p] = errorResult(r.outcome)]
        /\ UNCHANGED <<charged, entry>>

\* A faulty handler: audit.log is called once per write charged, so that a
\* moveTask logs two entries.
CompleteLoggingEachWrite(p, tr) ==
    LET cmd == op[p]
        r   == Commit(guardrails, now, cmd)
    IN  /\ guardrails' = r.g
        /\ charged' = [charged EXCEPT ![p] = CommitCost(cmd.name)]
        /\ entry' = [entry EXCEPT ![p] = AuditEntry(cmd)]
        /\ trace' = [trace EXCEPT ![p] =
               Append(tr, Ev("commit", ""))
                   \o [ i \in 1..CommitCost(cmd.name) |-> Ev("audit.log", "") ]]
        /\ pc' = [pc EXCEPT ![p] = "audit"]
        /\ UNCHANGED result

\* The handler's last remote call has resolved: the handler commits the counter,
\* builds the audit entry and awaits audit.log.
Complete(p, tr) ==
    LET cmd == op[p]
        r   == Commit(guardrails, now, cmd)
    IN  /\ guardrails' = r.g
        /\ charged' = [charged EXCEPT ![p] = CommitCost(cmd.name)]
        /\ entry' = [entry EXCEPT ![p] = AuditEntry(cmd)]
        /\ trace' = [trace EXCEPT ![p] = tr \o << Ev("commit", ""), Ev("audit.log", "") >>]
        /\ pc' = [pc EXCEPT ![p] = "audit"]
        /\ UNCHANGED result

\* The remote call slot p awaits resolves with data.
RemoteResolve(p, data) ==
    /\ pc[p] = "remote"
    /\ LET all == RemoteCalls(op[p].name)
           k   == Len(CallsOf(trace[p]))
           tr  == Append(trace[p], Ev("resolved", all[k]))
       IN  /\ data \in Responses(all[k])
           /\ IF k < Len(all) THEN Continue(p, tr, k, data) ELSE Complete(p, tr)
    /\ UNCHANGED <<config, now, last, op, auditLog, started>>

\* A faulty handler: the cost is committed although the remote call failed.
RemoteRejectCharging(p, err) ==
    /\ pc[p] = "remote"
    /\ LET all == RemoteCalls(op[p].name)
           k   == Len(CallsOf(trace[p]))
       IN  trace' = [trace EXCEPT ![p] = Append(@, Ev("rejected", all[k]))]
    /\ pc' = [pc EXCEPT ![p] = "done"]
    /\ result' = [result EXCEPT ![p] = withErrorHandling(err)]
    /\ guardrails' = Commit(guardrails, now, op[p]).g
    /\ UNCHANGED <<config, now, last, op, charged, entry, auditLog, started>>

\* The remote call slot p awaits throws err: withErrorHandling turns it into a
\* structured error and the handler is over.
RemoteReject(p, err) ==
    /\ pc[p] = "remote"
    /\ LET all == RemoteCalls(op[p].name)
           k   == Len(CallsOf(trace[p]))
       IN  trace' = [trace EXCEPT ![p] = Append(@, Ev("rejected", all[k]))]
    /\ pc' = [pc EXCEPT ![p] = "done"]
    /\ result' = [result EXCEPT ![p] = withErrorHandling(err)]
    /\ UNCHANGED <<config, guardrails, now, last, op, charged, entry, auditLog, started>>

\* audit.log resolves: the entry is persisted and the handler returns its payload.
AuditResolve(p) ==
    /\ pc[p] = "audit"
    /\ auditLog' = Append(auditLog, entry[p])
    /\ trace' = [trace EXCEPT ![p] = Append(@, Ev("audit.resolved", ""))]
    /\ pc' = [pc EXCEPT ![p] = "done"]
    /\ result' = [result EXCEPT ![p] = successResult]
    /\ UNCHANGED <<config, guardrails, now, last, op, charged, entry, started>>

\* A faulty handler: audit.log is awaited outside any try/catch, so its rejection
\* reaches withErrorHandling and becomes the result.
AuditRejectFailing(p) ==
    /\ pc[p] = "audit"
    /\ trace' = [trace EXCEPT ![p] = Append(@, Ev("audit.rejected", ""))]
    /\ pc' = [pc EXCEPT ![p] = "done"]
    /\ result' = [result EXCEPT ![p] = errorResult("API_ERROR")]
    /\ UNCHANGED <<config, guardrails, now, last, op, charged, entry, auditLog, started>>

\* audit.log rejects: the handler catches it, reports it on the diagnostic
\* channel and returns its payload.
AuditReject(p) ==
    /\ pc[p] = "audit"
    /\ trace' = [trace EXCEPT ![p] = Append(@, Ev("audit.rejected", ""))]
    /\ pc' = [pc EXCEPT ![p] = "done"]
    /\ result' = [result EXCEPT ![p] = successResult]
    /\ UNCHANGED <<config, guardrails, now, last, op, charged, entry, auditLog, started>>

\* The result is delivered to the caller and the slot is free again.
Return(p) ==
    /\ pc[p] = "done"
    /\ pc' = [pc EXCEPT ![p] = "idle"]
    /\ op' = [op EXCEPT ![p] = NoCommand]
    /\ trace' = [trace EXCEPT ![p] = <<>>]
    /\ charged' = [charged EXCEPT ![p] = 0]
    /\ entry' = [entry EXCEPT ![p] = NoEntry]
    /\ result' = [result EXCEPT ![p] = NoResult]
    /\ UNCHANGED <<config, guardrails, now, last, auditLog, started>>

\* Spec: as many commands as there are slots are dispatched, at any time, so
\* that they can all be in flight at once.
\* A faulty dispatcher: a command waits until no other is in flight.
DispatchAnyLocked(p, cmd) ==
    /\ started < Cardinality(Slots)
    /\ \A q \in Slots : pc[q] = "idle"
    /\ Dispatch(p, cmd)

DispatchAny(p, cmd) ==
    /\ started < Cardinality(Slots)
    /\ Dispatch(p, cmd)

Next ==
    \/ Tick
    \/ \E p \in Slots, cmd \in Commands : DispatchAny(p, cmd)
    \/ \E p \in Slots, data \in ExistingEvents \cup {NoData} : RemoteResolve(p, data)
    \/ \E p \in Slots, err \in RemoteErrors : RemoteReject(p, err)
    \/ \E p \in Slots : AuditResolve(p)
    \/ \E p \in Slots : AuditReject(p)
    \/ \E p \in Slots : Return(p)

Spec == Init /\ [][Next]_vars

\* SpecSeq: the same handlers with MaxOps commands issued one after another: a
\* command is dispatched only when no other is in flight.
DispatchSeq(p, cmd) ==
    /\ started < MaxOps
    /\ \A q \in Slots : pc[q] = "idle"
    /\ Dispatch(p, cmd)

NextSeq ==
    \/ Tick
    \/ \E p \in Slots, cmd \in Commands : DispatchSeq(p, cmd)
    \/ \E p \in Slots, data \in ExistingEvents \cup {NoData} : RemoteResolve(p, data)
    \/ \E p \in Slots, err \in RemoteErrors : RemoteReject(p, err)
    \/ \E p \in Slots : AuditResolve(p)
    \/ \E p \in Slots : AuditReject(p)
    \/ \E p \in Slots : Return(p)

SpecSeq == Init /\ [][NextSeq]_vars

----------------------------------------------------------------------------
\* SpecT: gmail_send_message as the server registers it: the arguments are
\* validated against the tool's input schema, then requireAuth, then sendMessage.

\* What a caller can pass as requireApproval, spelled as JSON ("undefined": the
\* argument is left out; "'true'": the string, not the boolean).
ApprovalValues == {"true", "false", "undefined", "'true'", "1"}

\* A faulty schema: requireApproval may be left out.
requireApprovalOptional(v) == v \in {"true", "undefined"}

\* requireApproval: z.literal(true)
requireApprovalSchema(v) == v = "true"

\* The configurations SpecT starts from: requireApprovalForSend either way.
ToolConfigs ==
    { [c EXCEPT !.gmail = [HandlerGmailConfig EXCEPT !.requireApprovalForSend = b]] :
          c \in HandlerConfigs, b \in BOOLEAN }

InitT == Start(ToolConfigs)

SendCommand(v) ==
    [ name |-> "sendMessage", target |-> "", dest |-> "", requireApproval |-> v ]

\* The call ends before the handler is entered.
Refuse(p, cmd, code) ==
    /\ pc[p] = "idle"
    /\ \A q \in Slots : pc[q] = "idle" => p = FirstSlot \/ q # FirstSlot
    /\ started' = started + 1
    /\ op' = [op EXCEPT ![p] = cmd]
    /\ charged' = [charged EXCEPT ![p] = 0]
    /\ entry' = [entry EXCEPT ![p] = NoEntry]
    /\ pc' = [pc EXCEPT ![p] = "done"]
    /\ trace' = [trace EXCEPT ![p] = <<>>]
    /\ result' = [result EXCEPT ![p] = errorResult(code)]
    /\ UNCHANGED <<config, guardrails, now, last, auditLog>>

gmail_send_message(p, v, authenticated) ==
    /\ started < MaxOps
    /\ IF ~requireApprovalSchema(v) THEN Refuse(p, SendCommand(v), "INVALID_PARAMS")
       ELSE IF ~authenticated THEN Refuse(p, SendCommand(v), "AUTH_MISSING")
       ELSE Dispatch(p, SendCommand(v))

NextT ==
    \/ Tick
    \/ \E p \in Slots, v \in ApprovalValues, a \in BOOLEAN : gmail_send_message(p, v, a)
    \/ \E p \in Slots : RemoteResolve(p, NoData)
    \/ \E p \in Slots, err \in RemoteErrors : RemoteReject(p, err)
    \/ \E p \in Slots : AuditResolve(p)
    \/ \E p \in Slots : AuditReject(p)
    \/ \E p \in Slots : Return(p)

SpecT == InitT /\ [][NextT]_vars

----------------------------------------------------------------------------
\* SpecA: checks that read no counter, called directly with arguments on both
\* sides of what they compare with, and getAttachment, a read-only handler that
\* touches neither counters nor audit log and is therefore taken as one step
\* from its call to its result.

\* End times from a day and a tick before the clock starts to its last tick.
CheckedEndTimes == (0 - TicksPerDay - 1)..MaxNow

ProbeCheckPastEventProtection ==
    \E end \in CheckedEndTimes :
        Call("checkPastEventProtection", end,
             checkPastEventProtection(config, guardrails, now, end))

\* Attachment sizes in bytes: exactly at and one byte over the configured (1 MB)
\* and the default maximum.
BoundarySizes == { BytesPerMB, BytesPerMB + 1,
                   DefaultMaxAttachmentMB * BytesPerMB,
                   DefaultMaxAttachmentMB * BytesPerMB + 1 }

ProbeCheckAttachmentSize ==
    \E size \in BoundarySizes :
        Call("checkAttachmentSize", size, checkAttachmentSize(config, guardrails, size))

NoSize == -1

\* What messages.get tells about the attachment part: its mimeType and its
\* body.size, either of which can be missing; a part that is not found at all
\* reads like one with both missing.
Parts == [ mimeType : MimeTypes \cup {NoId}, size : BoundarySizes \cup {NoSize} ]

\* Which of the handler's two remote calls throws (0: neither).
Failures == [ at : {0, 1, 2}, err : RemoteErrors ]

\* A faulty getAttachment: the attachment is fetched before the checks are run.
getAttachmentFetchFirst(cfg, g, part, failure) ==
    LET mimeType == IF part.mimeType = NoId THEN "application/octet-stream"
                    ELSE part.mimeType
        partSize == IF part.size = NoSize THEN 0 ELSE part.size
        r == OrElse(checkAttachmentType(cfg, g, mimeType),
                    checkAttachmentSize(cfg, g, partSize))
    IN  IF failure.at = 1
        THEN [ g |-> g, outcome |-> withErrorHandling(failure.err).code,
               calls |-> << "messages.get" >> ]
        ELSE IF failure.at = 2
        THEN [ g |-> g, outcome |-> withErrorHandling(failure.err).code,
               calls |-> << "messages.get", "attachments.get" >> ]
        ELSE [ g |-> r.g, outcome |-> r.outcome,
               calls |-> << "messages.get", "attachments.get" >> ]

\* getAttachment: messages.get, the part's metadata with its fallbacks, the type
\* check, the size check, attachments.get.
getAttachment(cfg, g, part, failure) ==
    LET mimeType == IF part.mimeType = NoId THEN "application/octet-stream"
                    ELSE part.mimeType
        partSize == IF part.size = NoSize THEN 0 ELSE part.size
        r == OrElse(checkAttachmentType(cfg, g, mimeType),
                    checkAttachmentSize(cfg, g, partSize))
    IN  IF failure.at = 1
        THEN [ g |-> g, outcome |-> withErrorHandling(failure.err).code,
               calls |-> << "messages.get" >> ]
        ELSE IF r.outcome # "OK"
        THEN [ g |-> r.g, outcome |-> r.outcome, calls |-> << "messages.get" >> ]
        ELSE IF failure.at = 2
        THEN [ g |-> r.g, outcome |-> withErrorHandling(failure.err).code,
               calls |-> << "messages.get", "attachments.get" >> ]
        ELSE [ g |-> r.g, outcome |-> "OK",
               calls |-> << "messages.get", "attachments.get" >> ]

CallGetAttachment ==
    \E part \in Parts, failure \in Failures :
        LET r == getAttachment(config, guardrails, part, failure)
        IN  /\ guardrails' = r.g
            /\ last' = [ fn |-> "getAttachment", arg |-> part, outcome |-> r.outcome,
                         stale |-> guardrails.writeCountDate # todayUTC(now),
                         before |-> guardrails, calls |-> r.calls ]
            /\ UNCHANGED <<config, now, handlerVars>>

\* Where the message that messages.get returns holds the requested attachment:
\* in a part of payload.parts, in a part nested in one of them, in the payload
\* itself (a message that is the attachment and has no parts), or in a part
\* whose body.attachmentId is not the id asked for.
Located == {"payload.parts", "payload.parts[].parts", "payload", "other id"}

\* The attachment as it is, and where the message holds it.
AttachedMessages ==
    [ at : Located, part : [ mimeType : MimeTypes, size : Sizes ] ]

\* Which of the two remote calls throws while such a message is read (0:
\* neither), with a server error.
MessageFailures ==
    [ at : {0, 1, 2}, err : { [ kind |-> "gaxios", hasStatus |-> TRUE, status |-> 500 ] } ]

\* findPart: the parts of the payload are searched, nested parts included, for
\* the attachment id asked for; when payload.parts is missing or no part
\* matches, nothing is assigned.
findPart(message) ==
    IF message.at \in {"payload.parts", "payload.parts[].parts"}
    THEN message.part
    ELSE [ mimeType |-> NoId, size |-> NoSize ]

CallGetAttachmentOfMessage ==
    \E message \in AttachedMessages, failure \in MessageFailures :
        LET r == getAttachment(config, guardrails, findPart(message), failure)
        IN  /\ guardrails' = r.g
            /\ last' = [ fn |-> "getAttachment of message", arg |-> message,
                         outcome |-> r.outcome,
                         stale |-> guardrails.writeCountDate # todayUTC(now),
                         before |-> guardrails, calls |-> r.calls ]
            /\ UNCHANGED <<config, now, handlerVars>>

NextA ==
    \/ Tick
    \/ ProbeCheckPastEventProtection
    \/ ProbeCheckAttachmentSize
    \/ CallCheckAttachmentType
    \/ CallGetAttachment

SpecA == InitG /\ [][NextA]_vars

\* SpecM: getAttachment called for messages that hold the attachment in one
\* place or another.
NextM ==
    \/ Tick
    \/ CallGetAttachmentOfMessage

SpecM == InitG /\ [][NextM]_vars

----------------------------------------------------------------------------
\* SpecS: the server starts with the guardrails file it finds, and the write
\* limit check and the write increment are called on the GuardrailContext it
\* has built, on a day on which some writes have been committed already.
\* trace[FirstSlot] holds the file as it was found.

\* The limit of the configuration index.ts falls back on.
DefaultWriteLimit == 50

DefaultGuardrails ==
    [ dailyWriteLimit |-> DefaultWriteLimit, pastEventProtectionDays |-> 7,
      protectedCalendars |-> {}, protectedTaskLists |-> {},
      allowRecurringSeriesDelete |-> FALSE, gmail |-> NoGmail ]

\* What a guardrails file that parses as JSON holds: an object with the
\* properties of GuardrailConfig, dailyWriteLimit among them or not.
ParsedFiles ==
    { [ dailyWriteLimit |-> w, pastEventProtectionDays |-> 1,
        protectedCalendars |-> {"holidays"}, protectedTaskLists |-> {"P"},
        allowRecurringSeriesDelete |-> a, gmail |-> NoGmail ] :
        w \in 0..MaxLimit \cup {NoLimit}, a \in BOOLEAN }

\* The file at config.guardrailsPath: missing, not JSON, or JSON.
GuardrailFiles ==
    { [ kind |-> k, content |-> DefaultGuardrails ] : k \in {"missing", "garbage"} }
    \cup { [ kind |-> "json", content |-> c ] : c \in ParsedFiles }

\* loadGuardrails(configPath): readFileSync or JSON.parse throws, or the parsed
\* value is taken as the configuration as it is.
loadGuardrails(file) ==
    IF file.kind = "json"
    THEN [ outcome |-> "OK", config |-> file.content ]
    ELSE [ outcome |-> "throws", config |-> file.content ]

\* index.ts: the configuration the server runs with.
StartupConfig(file) ==
    LET r == loadGuardrails(file)
    IN  IF r.outcome = "OK" THEN r.config ELSE DefaultGuardrails

\* The writes committed so far on the day the checks are made.
WriteCounts == {0, 1, DefaultWriteLimit - 1, DefaultWriteLimit}

InitS ==
    /\ \E file \in GuardrailFiles :
           /\ config = StartupConfig(file)
           /\ trace = [ p \in Slots |-> IF p = FirstSlot THEN << Ev("found", file) >>
                                        ELSE <<>> ]
    /\ now = 0
    /\ \E c \in WriteCounts :
           /\ config.dailyWriteLimit = NoLimit \/ c <= config.dailyWriteLimit
           /\ guardrails = [ NewGuardrailContext(0) EXCEPT !.writeCount = c ]
    /\ last = NoCall
    /\ pc = [ p \in Slots |-> "idle" ]
    /\ op = [ p \in Slots |-> NoCommand ]
    /\ charged = [ p \in Slots |-> 0 ]
    /\ entry = [ p \in Slots |-> NoEntry ]
    /\ result = [ p \in Slots |-> NoResult ]
    /\ auditLog = <<>>
    /\ started = 0

\* A write is committed after a check that admitted it.
CommitAdmittedWrite ==
    \E cost \in Costs :
        /\ checkWriteLimit(config, guardrails, now, cost).outcome = "OK"
        /\ guardrails.writeCount + cost <= DefaultWriteLimit + MaxLimit
        /\ Call("incrementWriteCounter", cost, incrementWriteCounter(guardrails, now, cost))

NextS ==
    \/ Tick
    \/ CallCheckWriteLimit
    \/ CommitAdmittedWrite

SpecS == InitS /\ [][NextS]_vars

----------------------------------------------------------------------------
\* SpecE: the catch clause of withErrorHandling applied to whatever a handler
\* can throw, with the message the thrown value carries.

Messages == {"Token revoked", "socket hang up"}

Statuses == {400, 401, 403, 404, 429, 500, 503}

GuardrailCodes ==
    {"DAILY_LIMIT_REACHED", "PROTECTED_RESOURCE", "PAST_EVENT_PROTECTED",
     "RECURRING_SERIES_BLOCKED", "SEND_LIMIT_REACHED", "ATTACHMENT_TOO_LARGE",
     "BLOCKED_ATTACHMENT_TYPE"}

\* A thrown value, as far as the catch clause inspects it: its class, whether it
\* has the properties message, response and code, the status of its response if
\* it has one, and what message and code hold.
ThrownValue(class, hasMessage, hasResponse, hasStatus, status, hasCode, code, message) ==
    [ class |-> class, hasMessage |-> hasMessage, hasResponse |-> hasResponse,
      hasStatus |-> hasStatus, status |-> status, hasCode |-> hasCode,
      code |-> code, message |-> message ]

Thrown ==
    \* a GuardrailError of a policy check
    { ThrownValue("GuardrailError", TRUE, FALSE, FALSE, 0, TRUE, c, m) :
          c \in GuardrailCodes, m \in Messages }
    \* the remote service answered with an error status
    \cup { ThrownValue("GaxiosError", TRUE, TRUE, TRUE, st, hc, "ERR", m) :
               st \in Statuses, hc \in BOOLEAN, m \in Messages }
    \* no answer: a response without status, or no response and a system code
    \cup { ThrownValue("GaxiosError", TRUE, TRUE, FALSE, 0, hc, "ERR", m) :
               hc \in BOOLEAN, m \in Messages }
    \cup { ThrownValue("Error", TRUE, FALSE, FALSE, 0, TRUE, "ECONNRESET", m) :
               m \in Messages }
    \* any other Error, an object that only has a message, a thrown string
    \cup { ThrownValue("Error", TRUE, FALSE, FALSE, 0, FALSE, "", m) : m \in Messages }
    \cup { ThrownValue("Object", TRUE, FALSE, FALSE, 0, FALSE, "", m) : m \in Messages }
    \cup { ThrownValue("string", FALSE, FALSE, FALSE, 0, FALSE, "", "") }

\* isGaxiosError(err)
isGaxiosError(err) ==
    /\ err.class # "string"
    /\ err.hasMessage
    /\ (err.hasResponse \/ err.hasCode)

StructuredError(code, message) == [ error |-> TRUE, code |-> code, message |-> message ]

\* A tool result with the structured error it carries as text.
ToolError(structured) == [ isError |-> TRUE, content |-> structured ]

\* The catch clause of withErrorHandling, in full.
catch(err) ==
    IF err.class = "GuardrailError"
    THEN ToolError(StructuredError(err.code, err.message))
    ELSE IF isGaxiosError(err)
    THEN ToolError(StructuredError(apiError(IF err.hasStatus THEN err.status ELSE 500),
                                   err.message))
    ELSE ToolError(StructuredError("API_ERROR",
                                   IF err.class \in {"Error", "GaxiosError"}
                                   THEN err.message ELSE "Unknown error"))

CallCatch ==
    \E err \in Thrown :
        /\ last' = [ fn |-> "withErrorHandling", arg |-> err, outcome |-> catch(err),
                     stale |-> guardrails.writeCountDate # todayUTC(now),
                     before |-> guardrails ]
        /\ UNCHANGED <<config, guardrails, now, handlerVars>>

NextE ==
    \/ Tick
    \/ CallCatch

SpecE == InitG /\ [][NextE]_vars

----------------------------------------------------------------------------
\* SpecR: the read-only handlers of tasks.ts, calendar.ts and gmail.ts, run on
\* a GuardrailContext whose counters stand at 0 or 1, today and on later days.
\* They change nothing a concurrent handler reads, so each is taken as one
\* step from its call to its result.

ReadOnlyHandlers ==
    {"listTaskLists", "listTasks", "getTask", "listCalendars", "listEvents", "getEvent",
     "listMessages", "getMessage", "getAttachment", "listLabels"}

\* The number of messages messages.list can return.
MaxListed == 2

\* The remote calls of a read-only handler; listMessages fetches the metadata
\* of each of the listed messages.
ReadCallsOf(name, listed) ==
    CASE name = "listTaskLists" -> << "tasklists.list" >>
      [] name = "listTasks"     -> << "tasks.list" >>
      [] name = "getTask"       -> << "tasks.get" >>
      [] name = "listCalendars" -> << "calendarList.list" >>
      [] name = "listEvents"    -> << "events.list" >>
      [] name = "getEvent"      -> << "events.get" >>
      [] name = "listMessages"  -> << "messages.list" >> \o [ i \in 1..listed |-> "messages.get" ]
      [] name = "getMessage"    -> << "messages.get" >>
      [] name = "listLabels"    -> << "labels.list" >>

\* What a read-only handler is called with and finds: whether listEvents got a
\* date or a range (and a time zone that exists), how many messages are
\* listed, and the attachment part getAttachment is asked for.
ReadParts ==
    { [ mimeType |-> "text/plain", size |-> BytesPerMB ],
      [ mimeType |-> "application/x-msdownload", size |-> BytesPerMB ],
      [ mimeType |-> "text/plain", size |-> DefaultMaxAttachmentMB * BytesPerMB + 1 ] }

ReadInputs(name) ==
    IF name = "listEvents"
    THEN [ params : {"ok", "missing", "badTimezone"}, listed : {0}, part : {NoData} ]
    ELSE IF name = "listMessages"
    THEN [ params : {"ok"}, listed : 0..MaxListed, part : {NoData} ]
    ELSE IF name = "getAttachment"
    THEN [ params : {"ok"}, listed : {0}, part : ReadParts ]
    ELSE [ params : {"ok"}, listed : {0}, part : {NoData} ]

\* Which remote call throws (0: none), and what.
ReadFailures ==
    { [ at |-> 0, err |-> [ kind |-> "other", hasStatus |-> FALSE, status |-> 0 ] ] }
    \cup [ at : 1..(MaxListed + 1),
           err : { [ kind |-> "gaxios", hasStatus |-> TRUE, status |-> 404 ],
                   [ kind |-> "other", hasStatus |-> FALSE, status |-> 0 ] } ]

\* A faulty getAttachment: a download is charged to the modify budget.
readOnlyCounting(cfg, g, t, name, input, failure) ==
    IF name = "getAttachment"
    THEN LET r == getAttachment(cfg, g, input.part, failure)
         IN  [ g |-> IF r.outcome = "OK" THEN incrementGmailModifyCounter(r.g, t, 1).g
                     ELSE r.g,
               outcome |-> r.outcome, calls |-> r.calls, logged |-> <<>> ]
    ELSE [ g |-> g, outcome |-> "OK", calls |-> ReadCallsOf(name, input.listed),
           logged |-> <<>> ]

\* A read-only handler from call to result: the GuardrailContext it leaves, its
\* result, the remote calls it issued and the audit entries it logged.
readOnly(cfg, g, t, name, input, failure) ==
    IF name = "getAttachment"
    THEN LET r == getAttachment(cfg, g, input.part, failure)
         IN  [ g |-> r.g, outcome |-> r.outcome, calls |-> r.calls, logged |-> <<>> ]
    ELSE IF name = "listEvents" /\ input.params = "missing"
    THEN [ g |-> g, outcome |-> "VALIDATION_ERROR", calls |-> <<>>, logged |-> <<>> ]
    ELSE IF name = "listEvents" /\ input.params = "badTimezone"
    THEN [ g |-> g, outcome |-> "API_ERROR", calls |-> <<>>, logged |-> <<>> ]
    ELSE LET calls == ReadCallsOf(name, input.listed)
         IN  IF failure.at \in 1..Len(calls)
             THEN [ g |-> g, outcome |-> withErrorHandling(failure.err).code,
                    calls |-> SubSeq(calls, 1, IF name = "listMessages" /\ failure.at > 1
                                               THEN Len(calls) ELSE failure.at),
                    logged |-> <<>> ]
             ELSE [ g |-> g, outcome |-> "OK", calls |-> calls, logged |-> <<>> ]

CallReadOnly ==
    \E name \in ReadOnlyHandlers, failure \in ReadFailures :
        \E input \in ReadInputs(name) :
            LET r == readOnly(config, guardrails, now, name, input, failure)
            IN  /\ guardrails' = r.g
                /\ auditLog' = auditLog \o r.logged
                /\ last' = [ fn |-> name, arg |-> input, outcome |-> r.outcome,
                             stale |-> guardrails.writeCountDate # todayUTC(now),
                             before |-> guardrails, calls |-> r.calls ]
                /\ UNCHANGED <<config, now, pc, op, trace, charged, entry, result, started>>

InitR ==
    /\ config \in HandlerConfigs
    /\ now = 0
    /\ guardrails \in [ writeCount : {0, 1}, gmailSendCount : {0, 1},
                        gmailModifyCount : {0, 1}, writeCountDate : {todayUTC(0)} ]
    /\ last = NoCall
    /\ pc = [ p \in Slots |-> "idle" ]
    /\ op = [ p \in Slots |-> NoCommand ]
    /\ trace = [ p \in Slots |-> <<>> ]
    /\ charged = [ p \in Slots |-> 0 ]
    /\ entry = [ p \in Slots |-> NoEntry ]
    /\ result = [ p \in Slots |-> NoResult ]
    /\ auditLog = <<>>
    /\ started = 0

NextR ==
    \/ Tick
    \/ CallReadOnly

SpecR == InitR /\ [][NextR]_vars

----------------------------------------------------------------------------
\* SpecF: the audit logger (audit.ts) and the directory it writes to. log calls
\* are made one after another, each awaited before the next, and the storage
\* takes every write. auditLog holds the logger's directory and the directory's
\* state; trace[FirstSlot] holds the directory as it was found and then the
\* entries logged, in order; started counts the log calls.

\* The number of log calls made.
MaxLogs == 3

\* Timestamps as <<year, month, day>>.
Timestamps == { <<2026, 2, 13>>, <<2026, 3, 1>>, <<2025, 2, 13>> }

Titles == {"First", "Second"}

LoggedEntries == [ title : Titles, timestamp : Timestamps ]

\* A faulty file name: the month of the timestamp under the current year.
monthOfIgnoringYear(timestamp) == << 2026, timestamp[2] >>

\* The YYYY-MM of operations_YYYY-MM.json: year and month of the timestamp.
monthOf(timestamp) == << timestamp[1], timestamp[2] >>

Months == { monthOf(t) : t \in Timestamps }

\* What a file of the directory holds: nothing (no such file), a log
\* {month, entries}, bytes that do not parse, or JSON of another shape (here:
\* an object with entries and no month).
Absent == [ kind |-> "absent", month |-> <<>>, entries |-> <<>> ]

LogFile(month, entries) == [ kind |-> "log", month |-> month, entries |-> entries ]

Garbage == [ kind |-> "garbage", month |-> <<>>, entries |-> <<>> ]

WrongShape(entries) == [ kind |-> "wrongShape", month |-> <<>>, entries |-> entries ]

\* A faulty reader: whatever parses and has entries is taken as the month's log.
parseLogTrusting(content) ==
    IF content.kind \in {"log", "wrongShape"} THEN content.entries ELSE <<>>

\* The entries already stored for a month: those of a file that parses as a
\* log, none otherwise.
parseLog(content) == IF content.kind = "log" THEN content.entries ELSE <<>>

Unset == "unset"

\* A faulty loadConfig: without GOOGLE_MCP_AUDIT_LOG_DIR the log goes to a
\* default directory.
auditLogDirDefaulting(env) == IF env = Unset THEN "audit" ELSE env

\* loadConfig: auditLogDir is GOOGLE_MCP_AUDIT_LOG_DIR ?? null.
auditLogDir(env) == IF env = Unset THEN "null" ELSE env

\* A faulty log: the month's file is written anew with the entry alone.
logOverwriting(store, e) ==
    IF store.dir = "null" THEN store
    ELSE LET month == monthOf(e.timestamp)
         IN  [store EXCEPT !.exists = TRUE,
                           !.files[month] = LogFile(month, << e >>)]

\* log(entry) of the logger createAuditLogger(dir) returns: nothing without a
\* directory; otherwise the directory is created if need be and the month's
\* file is read, merged with the entry and rewritten.
log(store, e) ==
    IF store.dir = "null" THEN store
    ELSE LET month == monthOf(e.timestamp)
         IN  [store EXCEPT !.exists = TRUE,
                           !.files[month] =
                               LogFile(month, Append(parseLog(store.files[month]), e))]

\* The directory as the logger can find it: missing, empty, or holding one
\* file for 2026-02 that is a log of one entry, garbage, or of another shape.
SeedEntry == [ title |-> "Seed", timestamp |-> <<2026, 2, 1>> ]

FoundDirectories ==
    { [ exists |-> FALSE, files |-> [ m \in Months |-> Absent ] ],
      [ exists |-> TRUE,  files |-> [ m \in Months |-> Absent ] ] }
    \cup { [ exists |-> TRUE,
             files |-> [ m \in Months |-> IF m = <<2026, 2>> THEN c ELSE Absent ] ] :
               c \in { LogFile(<<2026, 2>>, << SeedEntry >>), Garbage,
                       WrongShape(<< SeedEntry >>) } }

InitF ==
    /\ config \in HandlerConfigs
    /\ config.dailyWriteLimit = MaxLimit /\ config.allowRecurringSeriesDelete
    /\ guardrails = NewGuardrailContext(0)
    /\ now = 0
    /\ last = NoCall
    /\ pc = [ p \in Slots |-> "idle" ]
    /\ op = [ p \in Slots |-> NoCommand ]
    /\ charged = [ p \in Slots |-> 0 ]
    /\ entry = [ p \in Slots |-> NoEntry ]
    /\ result = [ p \in Slots |-> NoResult ]
    /\ started = 0
    /\ \E env \in {Unset, "audit"}, d \in FoundDirectories :
           /\ auditLog = [ env |-> env, dir |-> auditLogDir(env),
                           exists |-> d.exists, files |-> d.files ]
           /\ trace = [ p \in Slots |->
                            IF p = FirstSlot THEN << Ev("found", d) >> ELSE <<>> ]

LogEntry ==
    \E e \in LoggedEntries :
        /\ started < MaxLogs
        /\ started' = started + 1
        /\ auditLog' = log(auditLog, e)
        /\ trace' = [trace EXCEPT ![FirstSlot] = Append(@, Ev("log", e))]
        /\ UNCHANGED <<config, guardrails, now, last, pc, op, charged, entry, result>>

NextF == LogEntry

SpecF == InitF /\ [][NextF]_vars

----------------------------------------------------------------------------
\* Properties of GuardrailContext (SpecG).

Counters(g) == <<g.writeCount, g.gmailSendCount, g.gmailModifyCount>>

LimitChecks == {"checkWriteLimit", "checkGmailSendLimit", "checkGmailModifyLimit"}

OtherChecks == {"checkProtectedCalendar", "checkProtectedTaskList",
                "checkPastEventProtection", "checkRecurringSeriesDelete",
                "checkAttachmentSize", "checkAttachmentType"}

Increments == {"incrementWriteCounter", "incrementGmailSendCounter",
               "incrementGmailModifyCounter"}

\* C1: checkWriteLimit(cost) fails, with DAILY_LIMIT_REACHED, if and only if
\* writeCount + cost > dailyWriteLimit, writeCount being today's count (the value
\* the call compares and leaves, equal to the stored one when the stored date is
\* today); when writeCount + cost equals the limit the call does not throw.
C1_WriteLimitIffOver ==
    last.fn = "checkWriteLimit" =>
        /\ last.outcome \in {"OK", "DAILY_LIMIT_REACHED"}
        /\ (last.outcome = "DAILY_LIMIT_REACHED")
               <=> (getWriteCount(guardrails) + last.arg > config.dailyWriteLimit)
        /\ ~last.stale => getWriteCount(guardrails) = getWriteCount(last.before)

\* C1 witness: a check that exactly reaches a non-zero limit from a non-zero
\* count passes.
C1_Witness ==
    /\ last.fn = "checkWriteLimit"
    /\ ~last.stale
    /\ last.before.writeCount > 0
    /\ last.before.writeCount + last.arg = config.dailyWriteLimit
    /\ last.outcome = "OK"

Added(fn, cost) ==
    CASE fn = "incrementWriteCounter"       -> <<cost, 0, 0>>
      [] fn = "incrementGmailSendCounter"   -> <<0, cost, 0>>
      [] fn = "incrementGmailModifyCounter" -> <<0, 0, cost>>
      [] OTHER                              -> <<0, 0, 0>>

\* C10: one date marker governs the three counters: every limit check and every
\* increment leaves the stored date equal to today; when the stored date differed,
\* all three counters were reset to 0 before the call's own counter was read or
\* incremented (so the other two are 0 afterwards and the incremented one holds the
\* cost alone); when it did not differ, nothing but the call's own increment changed.
C10_SharedDateMarker ==
    last.fn \in LimitChecks \cup Increments =>
        LET base == IF last.stale THEN <<0, 0, 0>> ELSE Counters(last.before)
            add  == Added(last.fn, last.arg)
        IN  /\ guardrails.writeCountDate = todayUTC(now)
            /\ Counters(guardrails) = [i \in 1..3 |-> base[i] + add[i]]

\* C10 witness: a rollover detected by a mail send increment has reset the write
\* and modify counters, both non-zero before.
C10_Witness ==
    /\ last.fn = "incrementGmailSendCounter"
    /\ last.stale
    /\ last.before.writeCount > 0
    /\ last.before.gmailModifyCount > 0
    /\ last.before.gmailSendCount > 0
    /\ Counters(guardrails) = <<0, last.arg, 0>>


\* ---------------------------------------------------------------------------
\* Properties of the mutating handlers (checked under Spec and SpecSeq)
\* ---------------------------------------------------------------------------

Has(tr, e) == \E i \in 1..Len(tr) : tr[i].e = e

Last(tr) == tr[Len(tr)]

\* Slot p has just recorded event e as the latest step of its handler.
Records(p, e) ==
    /\ trace'[p] # trace[p]
    /\ Len(trace'[p]) > 0
    /\ Last(trace'[p]).e = e

\* The positions of trace tr at which a call that changes remote data is issued.
MutatingCalls(tr) ==
    { i \in 1..Len(tr) : tr[i].e = "call" /\ tr[i].info \notin ReadCalls }

\* A policy check of the handler has thrown.
RejectedCheck(tr) == \E i \in 1..Len(tr) : tr[i].e = "check" /\ tr[i].info # "OK"

\* What a rollover-aware increment starts from: today's counters.
Today(g, t) == ensureDateCurrent(g, t)

\* No counter of the context grows in this step (a rollover may clear them).
NoIncrement ==
    /\ guardrails'.writeCount <= guardrails.writeCount
    /\ guardrails'.gmailSendCount <= guardrails.gmailSendCount
    /\ guardrails'.gmailModifyCount <= guardrails.gmailModifyCount

\* The phase of a handler an event belongs to: 1 policy checks and the read-only
\* fetches they need, 2 the guarded remote call, 3 the counter commit, 4 the
\* audit write.
Phase(ev) ==
    IF ev.e = "check" THEN 1
    ELSE IF ev.e \in {"call", "resolved", "rejected"}
    THEN (IF ev.info \in ReadCalls THEN 1 ELSE 2)
    ELSE IF ev.e = "commit" THEN 3
    ELSE 4

\* C2: every mutating handler runs in the order policy checks, remote call,
\* counter commit, audit write: phases never go backwards, the first step is a
\* policy check, the commit comes immediately after the handler's last remote
\* call has resolved (so after every one of its calls was confirmed), the audit
\* write immediately after the commit, and a cost is charged only by a commit.
C2_StrictOrder ==
    \A p \in Slots :
        LET tr == trace[p]
        IN  /\ \A i, j \in 1..Len(tr) : i < j => Phase(tr[i]) <= Phase(tr[j])
            /\ Len(tr) > 0 => tr[1].e = "check"
            /\ \A i \in 1..Len(tr) : tr[i].e = "commit" =>
                   /\ i > 1
                   /\ tr[i - 1] = Ev("resolved", Last(RemoteCalls(op[p].name)))
                   /\ Len(SelectSeq(SubSeq(tr, 1, i), LAMBDA x : x.e = "resolved"))
                          = Len(RemoteCalls(op[p].name))
                   /\ ~Has(tr, "rejected")
            /\ \A i \in 1..Len(tr) : tr[i].e = "audit.log" =>
                   i > 1 /\ tr[i - 1].e = "commit"
            /\ (charged[p] > 0) <=> Has(tr, "commit")

C2_Witness ==
    \E p \in Slots :
        /\ op[p].name = "deleteEvent"
        /\ pc[p] = "done"
        /\ Has(trace[p], "audit.resolved")
        /\ guardrails.writeCount >= 1

\* C3 as stated: when a policy check rejects, no remote call at all has been
\* issued by the handler.
C3_NoRemoteCallAtAll ==
    \A p \in Slots : RejectedCheck(trace[p]) => ~Has(trace[p], "call")

\* C3 amended: when a policy check rejects, the handler is finished with that
\* check's error as its result, it has issued no mutating remote call (only the
\* read-only fetch that updateEvent and deleteEvent need for their later
\* checks), no audit write and no commit, and the rejecting step increments no
\* counter.
C3_RejectionShortCircuits ==
    /\ [](\A p \in Slots : RejectedCheck(trace[p]) =>
              /\ pc[p] = "done"
              /\ Last(trace[p]).e = "check"
              /\ result[p] = errorResult(Last(trace[p]).info)
              /\ MutatingCalls(trace[p]) = {}
              /\ \A i \in 1..Len(trace[p]) :
                     trace[p][i].e = "call" => op[p].name \in {"updateEvent", "deleteEvent"}
              /\ ~Has(trace[p], "commit")
              /\ ~Has(trace[p], "audit.log")
              /\ charged[p] = 0
              /\ entry[p] = NoEntry)
    /\ [][\A p \in Slots :
              (Records(p, "check") /\ Last(trace'[p]).info # "OK") =>
                  NoIncrement /\ auditLog' = auditLog]_vars

C3_Witness ==
    \E p \in Slots :
        /\ op[p].name = "updateEvent"
        /\ pc[p] = "done"
        /\ trace[p] = << Ev("check", "OK"), Ev("call", "events.get"),
                         Ev("resolved", "events.get"),
                         Ev("check", "PAST_EVENT_PROTECTED") >>
        /\ result[p] = errorResult("PAST_EVENT_PROTECTED")

\* C4: when a remote call fails, the failing step commits nothing (the three
\* counters and the date marker are unchanged), writes no audit entry and ends
\* the handler with a structured error; such a handler never commits nor logs.
C4_RemoteFailureCommitsNothing ==
    /\ [][\A p \in Slots : Records(p, "rejected") =>
              /\ guardrails' = guardrails
              /\ auditLog' = auditLog
              /\ pc'[p] = "done"
              /\ result'[p].isError
              /\ result'[p].code \in {"AUTH_EXPIRED", "NOT_FOUND", "API_ERROR"}]_vars
    /\ [](\A p \in Slots : Has(trace[p], "rejected") =>
              /\ pc[p] = "done"
              /\ Last(trace[p]).e = "rejected"
              /\ result[p].isError
              /\ ~Has(trace[p], "commit")
              /\ ~Has(trace[p], "audit.log")
              /\ charged[p] = 0
              /\ entry[p] = NoEntry)

C4_Witness ==
    \E p \in Slots :
        /\ op[p].name = "sendMessage"
        /\ Has(trace[p], "rejected")
        /\ result[p] = errorResult("API_ERROR")
        /\ guardrails.gmailSendCount = 0
        /\ auditLog = << >>

\* C5: when audit.log rejects after the remote call succeeded, the handler
\* still returns success and the commit stands: the cost stays charged, the
\* counters are untouched by the failure, and nothing reaches the audit log.
C5_AuditFailureKeepsSuccess ==
    [][\A p \in Slots : Records(p, "audit.rejected") =>
           /\ Has(trace[p], "commit")
           /\ pc'[p] = "done"
           /\ result'[p] = successResult
           /\ guardrails' = guardrails
           /\ charged'[p] = CommitCost(op[p].name)
           /\ auditLog' = auditLog]_vars

C5_Witness ==
    \E p \in Slots :
        /\ op[p].name = "createTask"
        /\ Has(trace[p], "audit.rejected")
        /\ result[p] = successResult
        /\ guardrails.writeCount = 1
        /\ auditLog = << >>


\* The budget a handler draws on, its counter, its limit and its error code.
Budget(name) ==
    IF name = "sendMessage" THEN "send"
    ELSE IF name = "modifyMessage" THEN "modify"
    ELSE "write"

Count(g, b) ==
    IF b = "send" THEN g.gmailSendCount
    ELSE IF b = "modify" THEN g.gmailModifyCount
    ELSE g.writeCount

Limit(cfg, b) ==
    IF b = "send"
    THEN OrDefault(cfg.gmail, "dailySendLimit", DefaultSendLimit)
    ELSE IF b = "modify"
    THEN OrDefault(cfg.gmail, "dailyModifyLimit", DefaultModifyLimit)
    ELSE cfg.dailyWriteLimit

LimitCode(b) == IF b = "send" THEN "SEND_LIMIT_REACHED" ELSE "DAILY_LIMIT_REACHED"

\* Slot p's handler was turned away by its budget check.
OverBudget(p) ==
    /\ pc[p] = "done"
    /\ trace[p] = << Ev("check", LimitCode(Budget(op[p].name))) >>

\* C6: with operations issued one after another, no counter ever exceeds its
\* limit L, and a cost-1 operation is turned away by its budget check (code
\* DAILY_LIMIT_REACHED for write and modify, SEND_LIMIT_REACHED for send) only
\* when its counter stands at L, which it leaves there; the rejected call makes
\* no remote call and produces no audit entry, so within the first UTC day the
\* log holds at most one entry per unit committed.
C6_BudgetBoundary ==
    /\ \A b \in {"write", "send", "modify"} : Count(guardrails, b) <= Limit(config, b)
    /\ \A p \in Slots :
           (OverBudget(p) /\ CommitCost(op[p].name) = 1) =>
               /\ Count(guardrails, Budget(op[p].name)) = Limit(config, Budget(op[p].name))
               /\ result[p] = errorResult(LimitCode(Budget(op[p].name)))
               /\ charged[p] = 0
               /\ entry[p] = NoEntry
    /\ \A p \in Slots :
           (pc[p] = "done" /\ result[p] = successResult) =>
               /\ charged[p] = 1 \/ op[p].name = "moveTask"
               /\ Count(guardrails, Budget(op[p].name)) >= charged[p]
    /\ todayUTC(now) = 0 =>
           Len(auditLog) <= guardrails.writeCount + guardrails.gmailSendCount
                                + guardrails.gmailModifyCount

C6_Witness ==
    \E p \in Slots :
        /\ op[p].name = "sendMessage"
        /\ OverBudget(p)
        /\ Limit(config, "send") = 1
        /\ guardrails.gmailSendCount = 1
        /\ Len(auditLog) = 1
        /\ started = 2

\* The task commands that name the protected list "P" as the list they change.
TargetsProtected(cmd) ==
    /\ cmd.name \in {"createTask", "updateTask", "deleteTask", "completeTask", "moveTask"}
    /\ \/ resolveListId(cmd.target) \in config.protectedTaskLists
       \/ cmd.name = "moveTask" /\ resolveListId(cmd.dest) \in config.protectedTaskLists

\* Slot p starts a handler in this step.
Dispatched(p) == pc[p] = "idle" /\ pc'[p] # "idle"

\* C7 as stated: a mutating task operation on the protected list fails with
\* PROTECTED_RESOURCE whatever the state of the budgets.
C7_AlwaysProtectedResource ==
    \A p \in Slots :
        (pc[p] # "idle" /\ TargetsProtected(op[p])) =>
            result[p] = errorResult("PROTECTED_RESOURCE")

\* C7 amended: a mutating task operation on the protected list (the source or
\* the destination of a move included) fails at once, before any remote call
\* and without incrementing a counter; the code is PROTECTED_RESOURCE when
\* today's write budget still covers the operation's cost and
\* DAILY_LIMIT_REACHED when it does not, the write-limit check coming first.
C7_ProtectedListRejected ==
    [][\A p \in Slots :
           (Dispatched(p) /\ TargetsProtected(op'[p])) =>
               /\ pc'[p] = "done"
               /\ result'[p] = errorResult(
                      IF Today(guardrails, now).writeCount + CommitCost(op'[p].name)
                             > config.dailyWriteLimit
                      THEN "DAILY_LIMIT_REACHED" ELSE "PROTECTED_RESOURCE")
               /\ ~Has(trace'[p], "call")
               /\ charged'[p] = 0
               /\ NoIncrement
               /\ auditLog' = auditLog]_vars

C7_Witness ==
    \E p \in Slots :
        /\ op[p] = Command("moveTask", "L", "P")
        /\ pc[p] = "done"
        /\ result[p] = errorResult("PROTECTED_RESOURCE")
        /\ trace[p] = << Ev("check", "PROTECTED_RESOURCE") >>

\* C8: a move counts as two writes: it is turned away with DAILY_LIMIT_REACHED
\* and no remote call whenever today's write count plus 2 exceeds the limit,
\* and the commit of a successful move adds exactly 2 to today's write count.
C8_MoveCostsTwo ==
    [][\A p \in Slots :
           /\ (Dispatched(p) /\ op'[p].name = "moveTask"
                   /\ Today(guardrails, now).writeCount + 2 > config.dailyWriteLimit) =>
                  /\ pc'[p] = "done"
                  /\ result'[p] = errorResult("DAILY_LIMIT_REACHED")
                  /\ trace'[p] = << Ev("check", "DAILY_LIMIT_REACHED") >>
                  /\ NoIncrement
           /\ (op[p].name = "moveTask" /\ Has(trace'[p], "commit") /\ ~Has(trace[p], "commit")) =>
                  /\ guardrails'.writeCount = Today(guardrails, now).writeCount + 2
                  /\ charged'[p] = 2
                  /\ Len(CallsOf(trace'[p])) = 3]_vars

C8_Witness ==
    \E p \in Slots :
        /\ op[p].name = "moveTask"
        /\ config.dailyWriteLimit = 1
        /\ guardrails.writeCount = 0
        /\ pc[p] = "done"
        /\ result[p] = errorResult("DAILY_LIMIT_REACHED")
        /\ ~Has(trace[p], "call")

----------------------------------------------------------------------------
\* Further properties of GuardrailContext (SpecG).

\* A check has just thrown.
CheckFailed == last.fn \in LimitChecks \cup OtherChecks /\ last.outcome # "OK"

\* C11 as stated: whatever the state and the clock, a check that fails leaves
\* getWriteCount() as it was before the call.
C11_RejectionKeepsWriteCount ==
    CheckFailed => getWriteCount(guardrails) = getWriteCount(last.before)

\* C11 amended: a check that fails leaves getWriteCount() as it was, unless it is
\* a limit check called when the stored date is not today: that call has first
\* reset the counters, so getWriteCount() is 0 afterwards; a failing check never
\* raises the count.
C11_RejectionKeepsTodaysCount ==
    CheckFailed =>
        /\ getWriteCount(guardrails) =
               IF last.fn \in LimitChecks /\ last.stale
               THEN 0 ELSE getWriteCount(last.before)
        /\ getWriteCount(guardrails) <= getWriteCount(last.before)

\* C11 witness: a write-limit check fails on the day the count was made and the
\* count, non-zero, is as before.
C11_Witness ==
    /\ last.fn = "checkWriteLimit"
    /\ last.outcome = "DAILY_LIMIT_REACHED"
    /\ ~last.stale
    /\ getWriteCount(last.before) > 0
    /\ getWriteCount(guardrails) = getWriteCount(last.before)

----------------------------------------------------------------------------
\* Further properties of the handlers.

BudgetCodes == {"DAILY_LIMIT_REACHED", "SEND_LIMIT_REACHED"}

\* Slot p's command is turned away by its budget check in this step.
BudgetRejects(p) ==
    /\ Dispatched(p)
    /\ pc'[p] = "done"
    /\ trace'[p] = << Ev("check", LimitCode(Budget(op'[p].name))) >>
    /\ result'[p] = errorResult(LimitCode(Budget(op'[p].name)))

----------------------------------------------------------------------------
\* Properties of the single checks (SpecG).

\* C13: checkPastEventProtection blocks, with PAST_EVENT_PROTECTED, exactly when
\* the time elapsed since the end time is at least pastEventProtectionDays days:
\* an end time exactly that many days before now is blocked, one a day less old
\* is allowed, one a day older is blocked, and an end time in the future is
\* allowed; the call changes nothing.
C13_PastEventBoundary ==
    last.fn = "checkPastEventProtection" =>
        LET threshold == config.pastEventProtectionDays * TicksPerDay
            end       == last.arg
            blocked   == last.outcome = "PAST_EVENT_PROTECTED"
        IN  /\ last.outcome \in {"OK", "PAST_EVENT_PROTECTED"}
            /\ blocked <=> (now - end >= threshold)
            /\ end = now - threshold => blocked
            /\ end = now - threshold + TicksPerDay => ~blocked
            /\ end = now - threshold - TicksPerDay => blocked
            /\ end > now => ~blocked
            /\ guardrails = last.before

\* C13 witness: an end time exactly pastEventProtectionDays days old is blocked.
C13_Witness ==
    /\ last.fn = "checkPastEventProtection"
    /\ last.arg = now - config.pastEventProtectionDays * TicksPerDay
    /\ last.outcome = "PAST_EVENT_PROTECTED"

----------------------------------------------------------------------------
\* Properties of the calendar handlers (Spec).

\* Slot p's updateEvent or deleteEvent is suspended on events.get.
AwaitsExisting(p) ==
    /\ pc[p] = "remote"
    /\ op[p].name \in {"updateEvent", "deleteEvent"}
    /\ Len(CallsOf(trace[p])) = 1

\* The event ended pastEventProtectionDays days ago or more.
EndedLongAgo(event) ==
    /\ event.end # NoEnd
    /\ now - event.end >= config.pastEventProtectionDays * TicksPerDay

\* The event is the master of a recurring series: it has recurrence rules and
\* no parent series.
SeriesMaster(event) ==
    /\ event.recurrence # NoRecurrence
    /\ event.recurrence >= 1
    /\ event.recurringEventId \in {NoId, ""}

\* The code the handler of slot p owes for the existing event it is handed.
OwedCode(p, event) ==
    IF EndedLongAgo(event) THEN "PAST_EVENT_PROTECTED"
    ELSE IF /\ op[p].name = "deleteEvent"
            /\ SeriesMaster(event)
            /\ ~config.allowRecurringSeriesDelete
    THEN "RECURRING_SERIES_BLOCKED"
    ELSE "OK"

----------------------------------------------------------------------------
\* Properties of the mail limits (SpecL).

C20_MaxSendsPerDayBounds ==
    last.fn = "checkGmailSendLimit" =>
        LET bound == IF "maxSendsPerDay" \in DOMAIN config.gmail
                     THEN config.gmail.maxSendsPerDay
                     ELSE IF "dailySendLimit" \in DOMAIN config.gmail
                     THEN config.gmail.dailySendLimit
                     ELSE 10
        IN  (last.outcome = "SEND_LIMIT_REACHED")
                <=> (guardrails.gmailSendCount + last.arg > bound)

----------------------------------------------------------------------------
\* Properties of the three budgets (Spec).

Budgets == {"write", "send", "modify"}

\* Slot p's handler commits its cost in this step.
Commits(p) == ~Has(trace[p], "commit") /\ Has(trace'[p], "commit")

\* C17: the three budgets are independent. The commit of a successful command
\* adds the command's cost to the counter of its own family (the write counter
\* for calendar, task and label-create commands, the send counter for send, the
\* modify counter for message modify) and adds nothing to today's other two
\* counts; and a command is turned away by a budget check only on account of
\* its own family's count, however the other two budgets stand.
C17_BudgetsIndependent ==
    [][\A p \in Slots :
           /\ Commits(p) =>
                  \A b \in Budgets :
                      Count(guardrails', b) =
                          Count(Today(guardrails, now), b)
                              + (IF b = Budget(op[p].name) THEN CommitCost(op[p].name) ELSE 0)
           /\ Dispatched(p) =>
                  LET own == Budget(op'[p].name)
                  IN  /\ result'[p].code \in BudgetCodes
                             <=> Count(Today(guardrails, now), own)
                                     + CommitCost(op'[p].name) > Limit(config, own)
                      /\ \A b \in Budgets \ {own} :
                             Count(guardrails', b) = Count(Today(guardrails, now), b)]_vars

\* C17 witness: while a task command stands turned away by the exhausted write
\* budget, a mail send has been admitted and committed to the send counter alone.
C17_Witness ==
    \E p, q \in Slots :
        /\ op[q].name = "createTask"
        /\ OverBudget(q)
        /\ op[p].name = "sendMessage"
        /\ Has(trace[p], "commit")
        /\ guardrails.writeCount = config.dailyWriteLimit
        /\ guardrails.gmailSendCount = 1
        /\ guardrails.gmailModifyCount = 0

----------------------------------------------------------------------------
\* Properties of the attachment guardrails (SpecA).

\* The attachment limits in force: the configured ones or, without them, 10 MB
\* and no blocked type.
MaxAttachmentBytes ==
    (IF "maxAttachmentSizeMB" \in DOMAIN config.gmail
     THEN config.gmail.maxAttachmentSizeMB ELSE 10) * 1024 * 1024

BlockedTypes ==
    IF "blockedAttachmentTypes" \in DOMAIN config.gmail
    THEN config.gmail.blockedAttachmentTypes ELSE {}

\* C18: checkAttachmentSize fails, with ATTACHMENT_TOO_LARGE, exactly when the
\* size is strictly greater than the maximum (a size at the maximum passes);
\* checkAttachmentType fails, with BLOCKED_ATTACHMENT_TYPE, exactly when the
\* MIME type is a member of the blocked set as it is spelled; and getAttachment
\* stops before attachments.get whenever either check rejects the part that
\* messages.get described.
C18_AttachmentGuardrails ==
    /\ last.fn = "checkAttachmentSize" =>
           /\ last.outcome \in {"OK", "ATTACHMENT_TOO_LARGE"}
           /\ (last.outcome = "ATTACHMENT_TOO_LARGE") <=> (last.arg > MaxAttachmentBytes)
           /\ guardrails = last.before
    /\ last.fn = "checkAttachmentType" =>
           /\ last.outcome \in {"OK", "BLOCKED_ATTACHMENT_TYPE"}
           /\ (last.outcome = "BLOCKED_ATTACHMENT_TYPE") <=> (last.arg \in BlockedTypes)
           /\ guardrails = last.before
    /\ last.fn = "getAttachment" =>
           LET tooLarge == last.arg.size # NoSize /\ last.arg.size > MaxAttachmentBytes
               blocked  == last.arg.mimeType \in BlockedTypes
               fetched  == \E i \in 1..Len(last.calls) : last.calls[i] = "attachments.get"
           IN  /\ (tooLarge \/ blocked) => ~fetched
               /\ last.outcome \in {"ATTACHMENT_TOO_LARGE", "BLOCKED_ATTACHMENT_TYPE"}
                      => (~fetched /\ (tooLarge \/ blocked))
               /\ last.outcome = "OK" => (fetched /\ ~tooLarge /\ ~blocked)
               /\ guardrails = last.before

\* C18 witness: getAttachment has refused a part one byte over the configured
\* maximum, of a type that is not blocked, after messages.get alone.
C18_Witness ==
    /\ last.fn = "getAttachment"
    /\ "maxAttachmentSizeMB" \in DOMAIN config.gmail
    /\ last.arg = [ mimeType |-> "text/plain", size |-> MaxAttachmentBytes + 1 ]
    /\ last.outcome = "ATTACHMENT_TOO_LARGE"
    /\ last.calls = << "messages.get" >>

----------------------------------------------------------------------------
\* Properties of the gmail_send_message tool (SpecT).

\* Slot p holds a gmail_send_message call that did not carry requireApproval: true.
Unapproved(p) == pc[p] # "idle" /\ op[p].requireApproval # "true"

\* C19: a gmail_send_message call whose requireApproval is not the boolean true
\* is answered with an error without a single step of sendMessage: no check, no
\* remote call, no audit entry, nothing charged; the step that refuses it leaves
\* every counter as it was, and the send counter only ever grows by the commit
\* of an approved call.
C19_UnapprovedSendRefused ==
    /\ [](\A p \in Slots : Unapproved(p) =>
              /\ pc[p] = "done"
              /\ result[p].isError
              /\ trace[p] = <<>>
              /\ charged[p] = 0
              /\ entry[p] = NoEntry)
    /\ [][ /\ \A p \in Slots : (Dispatched(p) /\ Unapproved(p)')
                                   => guardrails' = guardrails
           /\ Today(guardrails', now).gmailSendCount > Today(guardrails, now).gmailSendCount
                  => \E p \in Slots : /\ pc[p] # "idle"
                                      /\ op[p].requireApproval = "true"
                                      /\ ~Has(trace[p], "commit")
                                      /\ Has(trace'[p], "commit") ]_vars

\* C19 witness: a call that left requireApproval out stands refused while the
\* configuration says approval is not required, and an approved call has sent.
C19_Witness ==
    /\ ~config.gmail.requireApprovalForSend
    /\ \E p, q \in Slots :
           /\ Unapproved(p) /\ op[p].requireApproval = "undefined"
           /\ result[p] = errorResult("INVALID_PARAMS")
           /\ pc[q] = "done" /\ Has(trace[q], "commit")
           /\ guardrails.gmailSendCount = 1

----------------------------------------------------------------------------
\* Properties of the error mapping (SpecE).

\* The thrown value is a failure of a remote call: an error of the HTTP client,
\* with or without a response, or a system error of the transport.
RemoteFailure(err) == err.class # "GuardrailError" /\ isGaxiosError(err)

\* C21: a remote failure is mapped by its HTTP status alone: 401 gives
\* AUTH_EXPIRED, 404 gives NOT_FOUND, every other status gives API_ERROR, and so
\* does a failure without status (taken as 500); the result is an error result
\* that carries the failure's own message.
C21_StatusMapping ==
    (last.fn = "withErrorHandling" /\ RemoteFailure(last.arg)) =>
        LET err == last.arg
            res == last.outcome
        IN  /\ res.isError
            /\ res.content.error
            /\ res.content.message = err.message
            /\ res.content.code =
                   (IF err.hasStatus /\ err.status = 401 THEN "AUTH_EXPIRED"
                    ELSE IF err.hasStatus /\ err.status = 404 THEN "NOT_FOUND"
                    ELSE "API_ERROR")
            /\ \A other \in Thrown :
                   (/\ RemoteFailure(other)
                    /\ other.hasStatus = err.hasStatus
                    /\ other.status = err.status)
                       => catch(other).content.code = res.content.code

\* C21 witness: a rate-limited call (429) ended as API_ERROR with its message.
C21_Witness ==
    /\ last.fn = "withErrorHandling"
    /\ RemoteFailure(last.arg)
    /\ last.arg.hasStatus /\ last.arg.status = 429
    /\ last.outcome = ToolError(StructuredError("API_ERROR", "Token revoked"))

----------------------------------------------------------------------------
\* Properties of the handlers' results (Spec).

ErrorCodes == GuardrailCodes \cup {"AUTH_EXPIRED", "NOT_FOUND", "API_ERROR"}

\* C22: a handler invocation ends in exactly one tool result and no exception
\* leaves it: a running handler has no result yet, a finished one has either the
\* success payload or an error result with one of the known codes, whether a
\* policy check, a remote call or the audit log failed; the result, once there,
\* stays until the call returns; and whatever is thrown, the catch clause turns
\* it into the shape {error: true, code, message}.
C22_OneUniformResult ==
    /\ [](\A p \in Slots :
              /\ pc[p] \notin {"idle", "done"} => result[p] = NoResult
              /\ pc[p] = "done" =>
                     \/ result[p] = successResult
                     \/ \E c \in ErrorCodes : result[p] = errorResult(c))
    /\ [](\A err \in Thrown :
              LET res == catch(err)
              IN  /\ res.isError
                  /\ DOMAIN res.content = {"error", "code", "message"}
                  /\ res.content.error
                  /\ res.content.code \in ErrorCodes
                  /\ res.content.message \in Messages \cup {"Unknown error"})
    /\ [][\A p \in Slots :
              (result[p] # NoResult /\ result'[p] # result[p])
                  => (pc[p] = "done" /\ pc'[p] = "idle" /\ result'[p] = NoResult)]_vars

\* C22 witness: three ways to fail and one to succeed have been seen: one slot
\* ended on an exception that is not an HTTP error, the other on a success whose
\* audit entry could not be written.
C22_Witness ==
    \E p, q \in Slots :
        /\ pc[p] = "done" /\ result[p] = errorResult("API_ERROR")
        /\ Has(trace[p], "rejected")
        /\ pc[q] = "done" /\ result[q] = successResult
        /\ Has(trace[q], "audit.rejected")

----------------------------------------------------------------------------
\* Properties of the audit logger (SpecF).

\* The directory as it was found, and the entries logged since, in order.
Found == trace[FirstSlot][1].info

Logged == [ i \in 1..(Len(trace[FirstSlot]) - 1) |-> trace[FirstSlot][i + 1].info ]

\* Entry e carries a timestamp of year-month m.
InMonth(e, m) == e.timestamp[1] = m[1] /\ e.timestamp[2] = m[2]

LoggedIn(m) == SelectSeq(Logged, LAMBDA e : InMonth(e, m))

\* The directory now.
Directory == [ exists |-> auditLog.exists, files |-> auditLog.files ]

Fresh(d) == \A m \in DOMAIN d.files : d.files[m] = Absent

\* This step is a log call of entry e by a logger that has a directory.
Logs(e) ==
    /\ started' = started + 1
    /\ Last(trace'[FirstSlot]) = Ev("log", e)
    /\ auditLog.dir # "null"

\* C23: entries logged one after another to a fresh directory are found, month
\* by month, in the file of that month, all of them and in arrival order, the
\* file giving that month as its month; a month nothing was logged for has no
\* file (so N entries of one month make exactly one file of N entries). Each
\* log call leaves the entries its month's file held in place and puts the new
\* entry after them.
C23_AppendInOrder ==
    /\ []((auditLog.dir # "null" /\ Fresh(Found)) =>
              \A m \in Months :
                  IF LoggedIn(m) = <<>>
                  THEN auditLog.files[m] = Absent
                  ELSE auditLog.files[m] = LogFile(m, LoggedIn(m)))
    /\ [][\A e \in LoggedEntries, m \in Months :
              (Logs(e) /\ InMonth(e, m) /\ auditLog.files[m].kind = "log")
                  => /\ auditLog.files'[m].kind = "log"
                     /\ auditLog.files'[m].entries = Append(auditLog.files[m].entries, e)]_vars

\* C23 witness: First, then Second, both of February 2026, logged to a
\* directory that did not exist: one file, holding the two in that order.
C23_Witness ==
    /\ auditLog.dir # "null"
    /\ ~Found.exists
    /\ auditLog.exists
    /\ Len(Logged) = 2
    /\ auditLog.files[<<2026, 2>>] =
           LogFile(<<2026, 2>>, << [ title |-> "First", timestamp |-> <<2026, 2, 13>> ],
                                   [ title |-> "Second", timestamp |-> <<2026, 2, 13>> ] >>)
    /\ \A m \in Months : m # <<2026, 2>> => auditLog.files[m] = Absent

\* C24: an entry is stored only in the file of its own year-month: every log
\* file holds entries of its month alone and names that month, and a log call
\* leaves the files of all other months as they were.
C24_PartitionedByMonth ==
    /\ [](\A m \in Months :
              auditLog.files[m].kind = "log" =>
                  /\ auditLog.files[m].month = m
                  /\ \A i \in 1..Len(auditLog.files[m].entries) :
                         InMonth(auditLog.files[m].entries[i], m))
    /\ [][\A e \in LoggedEntries :
              Logs(e) =>
                  /\ \A m \in Months : ~InMonth(e, m) => auditLog.files'[m] = auditLog.files[m]
                  /\ \E m \in Months :
                         /\ InMonth(e, m)
                         /\ auditLog.files'[m].kind = "log"
                         /\ Last(auditLog.files'[m].entries) = e]_vars

\* C24 witness: entries of February 2026, March 2026 and February 2025 have
\* been logged and lie in three files of one entry each.
C24_Witness ==
    /\ auditLog.dir # "null"
    /\ Fresh(Found)
    /\ \A m \in Months :
           /\ auditLog.files[m].kind = "log"
           /\ Len(auditLog.files[m].entries) = 1

\* C25: logging an entry for a month whose file does not parse, or parses to
\* something that is not a log, leaves a log of that month with that entry
\* alone: what the file held is dropped.
C25_CorruptFileReplaced ==
    [][\A e \in LoggedEntries, m \in Months :
           (Logs(e) /\ InMonth(e, m) /\ auditLog.files[m].kind \in {"garbage", "wrongShape"})
               => auditLog.files'[m] = LogFile(m, << e >>)]_vars

\* C25 witness: the file of February 2026 was found holding JSON of another
\* shape; one entry of that month has been logged and stands alone in it.
C25_Witness ==
    /\ auditLog.dir # "null"
    /\ Found.files[<<2026, 2>>].kind = "wrongShape"
    /\ Len(Logged) = 1
    /\ InMonth(Logged[1], <<2026, 2>>)
    /\ auditLog.files[<<2026, 2>>] = LogFile(<<2026, 2>>, Logged)

\* C26: without GOOGLE_MCP_AUDIT_LOG_DIR every log call returns and the
\* directory, whatever it held and whether it existed, is as it was found.
C26_NoDirectoryNoOp ==
    auditLog.env = Unset =>
        /\ Directory = Found
        /\ started = Len(Logged)

\* C26 witness: as many entries as the bound allows have been logged without a
\* directory configured, and the directory still does not exist.
C26_Witness ==
    /\ auditLog.env = Unset
    /\ Len(Logged) = MaxLogs
    /\ ~auditLog.exists

----------------------------------------------------------------------------
\* Properties of concurrent handlers (Spec).

\* The slot the next command is dispatched to.
NextSlot(q) ==
    /\ pc[q] = "idle"
    /\ \A r \in Slots : pc[r] = "idle" => q = FirstSlot \/ r # FirstSlot

\* C27: admission looks at the counters alone, not at what is in flight: while a
\* command's remote call is pending, any command whose checks pass against the
\* counters as they stand is admitted and issues its own remote call; nothing
\* makes it wait for the pending command to commit.
C27_PendingCallsReserveNothing ==
    \A p, q \in Slots, cmd \in Commands :
        (/\ pc[p] = "remote"
         /\ NextSlot(q)
         /\ started < Cardinality(Slots)
         /\ PreChecks(config, guardrails, now, cmd).outcome = "OK")
            => ENABLED (DispatchAny(q, cmd) /\ pc'[q] = "remote")

\* C27 witness: two createTask commands have both committed and the counter
\* stands one above the limit: the second was admitted against the counter at
\* dailyWriteLimit - 1 while the first had not yet committed.
C27_Witness ==
    /\ config.dailyWriteLimit >= 1
    /\ guardrails.writeCount = config.dailyWriteLimit + 1
    /\ guardrails.writeCountDate = todayUTC(now)
    /\ \A p \in Slots :
           /\ op[p].name = "createTask"
           /\ Has(trace[p], "commit")
           /\ charged[p] = 1

----------------------------------------------------------------------------
\* Properties of the read-only handlers (SpecR).

\* C28: a read-only handler, whether it returns its payload or an error, leaves
\* the three counters and the date they belong to as they were, also when that
\* date is no longer today, and logs no audit entry.
C28_ReadsChangeNothing ==
    /\ [](auditLog = <<>>)
    /\ [][last'.fn \in ReadOnlyHandlers =>
              /\ guardrails' = guardrails
              /\ auditLog' = auditLog]_vars

\* C28 witness: getAttachment has downloaded an attachment on a day after the
\* one the counters belong to, and the counters still stand at 1.
C28_Witness ==
    /\ last.fn = "getAttachment"
    /\ last.outcome = "OK"
    /\ last.stale
    /\ Counters(guardrails) = <<1, 1, 1>>
    /\ guardrails.writeCountDate # todayUTC(now)

\* What slot p has added to the write counter.
WriteCharge(p) ==
    IF pc[p] # "idle" /\ Has(trace[p], "commit") /\ Budget(op[p].name) = "write"
    THEN CommitCost(op[p].name) ELSE 0

RECURSIVE SumWriteCharges(_)
SumWriteCharges(S) ==
    IF S = {} THEN 0
    ELSE LET p == CHOOSE x \in S : TRUE
         IN  WriteCharge(p) + SumWriteCharges(S \ {p})

\* No command has returned yet, and the counters are those of the first day.
FirstWindow ==
    /\ Cardinality({ p \in Slots : pc[p] # "idle" }) = started
    /\ guardrails.writeCountDate = todayUTC(0)

\* C29: however the handlers interleave, the write counter is the sum of the
\* costs committed since the last rollover: in the first window it equals the
\* costs of the commands that have committed, and every step either keeps the
\* window and adds exactly what the step's commit costs (nothing if no write
\* command commits in it) or opens a new window from 0 with that cost.
C29_CounterIsSumOfCommits ==
    /\ [](FirstWindow => guardrails.writeCount = SumWriteCharges(Slots))
    /\ [][LET S == { p \in Slots : Commits(p) /\ Budget(op[p].name) = "write" }
              base == IF guardrails'.writeCountDate = guardrails.writeCountDate
                      THEN guardrails.writeCount ELSE 0
          IN  /\ Cardinality(S) <= 1
              /\ guardrails'.writeCount =
                     base + (IF S = {} THEN 0
                             ELSE CommitCost(op[CHOOSE p \in S : TRUE].name))]_vars

\* C29 witness: a moveTask and a createTask were in flight together and both
\* have committed on the first day: the counter stands at 3.
C29_Witness ==
    /\ FirstWindow
    /\ guardrails.writeCount = 3
    /\ \E p, q \in Slots :
           /\ op[p].name = "moveTask" /\ Has(trace[p], "commit")
           /\ op[q].name = "createTask" /\ Has(trace[q], "commit")

----------------------------------------------------------------------------
\* Properties of handlers run one at a time (SpecSeq).

\* C30: with commands run one after another, no counter ever stands above its
\* limit: the check admits a command only if its cost still fits, nothing else
\* commits before the command does, and a date change in between only empties
\* the counter the cost is added to.
C30_SequentialWithinLimits ==
    /\ [](\A b \in Budgets : Count(guardrails, b) <= Limit(config, b))
    /\ [][\A p \in Slots :
              (Commits(p) /\ guardrails.writeCountDate # todayUTC(now))
                  => \A b \in Budgets :
                         Count(guardrails', b) =
                             (IF b = Budget(op[p].name) THEN CommitCost(op[p].name) ELSE 0)]_vars

\* C30 witness: the second command, a moveTask under a limit of 2, passed its
\* check, the UTC date changed while its remote call was pending, and the
\* counter it is about to commit to is from the day before.
C30_Witness ==
    \E p \in Slots :
        /\ started = 2
        /\ op[p].name = "moveTask"
        /\ pc[p] = "remote"
        /\ Has(trace[p], "check") /\ ~RejectedCheck(trace[p])
        /\ guardrails.writeCountDate # todayUTC(now)
        /\ config.dailyWriteLimit = 2

\* The positions of trace tr at which a call that changes remote data has
\* succeeded.
Mutations(tr) ==
    { i \in 1..Len(tr) : tr[i].e = "resolved" /\ tr[i].info \notin ReadCalls }

\* C31 as stated: with commands run one after another, every successful
\* mutating remote call on a task or calendar resource is charged to the write
\* budget, so that the counter the limit bounds counts the day's mutations:
\* when a handler is over, what it has added to the counter is at least the
\* number of its mutating calls that succeeded.
C31_EveryMutationCharged ==
    \A p \in Slots :
        (pc[p] = "done" /\ Budget(op[p].name) = "write")
            => charged[p] >= Cardinality(Mutations(trace[p]))

\* The remote state a moveTask has left, read off the calls that succeeded:
\* the copy exists in the destination list once tasks.insert has returned, and
\* the task is in the source list until tasks.delete has returned.
InDestination(tr) ==
    \E i \in 1..Len(tr) : tr[i].e = "resolved" /\ tr[i].info = "tasks.insert"

InSource(tr) ==
    ~\E i \in 1..Len(tr) : tr[i].e = "resolved" /\ tr[i].info = "tasks.delete"

\* C32 as stated: moveTask is all-or-nothing on the remote side: when it
\* returns an error the task is in the source list and not in the destination
\* list, and when it returns success the task is in the destination list only.
C32_MoveAllOrNothing ==
    \A p \in Slots :
        (pc[p] = "done" /\ op[p].name = "moveTask")
            => IF result[p].isError
               THEN InSource(trace[p]) /\ ~InDestination(trace[p])
               ELSE InDestination(trace[p]) /\ ~InSource(trace[p])

----------------------------------------------------------------------------
\* Properties of the audit entries the handlers build (SpecSeq).

\* The entries built so far: those persisted and those being logged.
Built ==
    ({ auditLog[i] : i \in 1..Len(auditLog) } \cup { entry[p] : p \in Slots }) \ {NoEntry}

\* C33 as stated: an entry has a changes field exactly when its operation is
\* update; no create, delete or complete entry has one.
C33_ChangesOnlyForUpdates ==
    \A e \in Built : (e.changes # NoChanges) <=> (e.operation = "update")

\* C33, amended: every update entry has a changes field and no delete or
\* complete entry has one; of the create entries, those of moveTask (the lists
\* moved between) and sendMessage (recipient and subject) have one, and those
\* of createTask, createEvent and createLabel have none.
C33_ChangesForUpdatesMovesAndSends ==
    /\ \A e \in Built :
           /\ e.operation = "update" => e.changes # NoChanges
           /\ e.operation \in {"delete", "complete"} => e.changes = NoChanges
    /\ \A p \in Slots :
           (entry[p] # NoEntry /\ entry[p].operation = "create")
               => ((entry[p].changes # NoChanges)
                       <=> op[p].name \in {"moveTask", "sendMessage"})

\* C33 witness: the log holds the create entry of a moveTask, with its changes,
\* and an update entry is being logged.
C33_Witness ==
    /\ \E i \in 1..Len(auditLog) :
           /\ auditLog[i].operation = "create"
           /\ auditLog[i].changes = "movedFrom, movedTo"
    /\ \E p \in Slots :
           /\ pc[p] = "audit"
           /\ entry[p].operation = "update"

\* The positions of trace tr at which audit.log is called.
AuditCalls(tr) == { i \in 1..Len(tr) : tr[i].e = "audit.log" }

\* C34: a handler that returns success has called audit.log exactly once, after
\* its counter commit and before its result, whatever the commit cost (a
\* moveTask charges 2 and logs once); a handler that returns an error has not
\* called audit.log; and no handler calls it twice.
C34_OneAuditCallPerSuccess ==
    \A p \in Slots :
        /\ pc[p] # "idle" => Cardinality(AuditCalls(trace[p])) <= 1
        /\ pc[p] = "done" =>
               IF result[p].isError
               THEN AuditCalls(trace[p]) = {}
               ELSE /\ Cardinality(AuditCalls(trace[p])) = 1
                    /\ \A i \in AuditCalls(trace[p]) :
                           \E j \in 1..(i - 1) : trace[p][j].e = "commit"

\* C34 witness: a moveTask has returned success with 2 charged and one
\* audit.log call in its trace.
C34_Witness ==
    \E p \in Slots :
        /\ pc[p] = "done"
        /\ op[p].name = "moveTask"
        /\ ~result[p].isError
        /\ charged[p] = 2
        /\ Cardinality(AuditCalls(trace[p])) = 1

----------------------------------------------------------------------------
\* Properties of commits across a date change (Spec).

\* C35: a commit charges the day it is made on. When the UTC date has changed
\* since the counters were last touched (the command's own check made them
\* current, so the date changed while its remote call was pending), the commit
\* starts all three counters from 0 and stores today's date, then adds the
\* cost; when another command has already committed on the new day, the cost
\* is added to what that command left. Either way the stored date is today's
\* after the commit, the command's counter is its cost plus what was committed
\* earlier today, and the other two counters hold what was committed today.
C35_CommitChargesNewDay ==
    [][\A p \in Slots :
           Commits(p) =>
               LET stale == guardrails.writeCountDate # todayUTC(now)
               IN  /\ guardrails'.writeCountDate = todayUTC(now)
                   /\ \A b \in Budgets :
                          Count(guardrails', b) =
                              (IF stale THEN 0 ELSE Count(guardrails, b))
                                  + (IF b = Budget(op[p].name)
                                     THEN CommitCost(op[p].name) ELSE 0)]_vars

\* C35 witness: a command committed a write on the first day, and the UTC date
\* has changed while the remote call of a second write command, dispatched
\* before the change, is pending: the counter its commit will add to still
\* holds the first day's count.
C35_Witness ==
    \E p, q \in Slots :
        /\ p # q
        /\ pc[p] = "remote" /\ Budget(op[p].name) = "write"
        /\ pc[q] # "idle" /\ Has(trace[q], "commit")
        /\ guardrails.writeCount > 0
        /\ guardrails.writeCountDate # todayUTC(now)

----------------------------------------------------------------------------
\* SpecC: the methods of GuardrailContext that read or write a counter or the
\* stored date, and one check that does neither, called in any order.
NextC ==
    \/ Tick
    \/ CallCheckWriteLimit
    \/ CallCheckGmailSendLimit
    \/ CallCheckGmailModifyLimit
    \/ CallCheckProtectedTaskList
    \/ CallIncrementWriteCounter
    \/ CallIncrementGmailSendCounter
    \/ CallIncrementGmailModifyCounter
    \/ CallResetForTesting
    \/ CallSetDateForTesting

SpecC == InitG /\ [][NextC]_vars

----------------------------------------------------------------------------
\* Properties of the counters over the methods of GuardrailContext (SpecC).

\* The call made in this step starts the counters anew: resetForTesting, or a
\* limit check or increment that finds the stored date on another day.
Resets ==
    \/ last'.fn = "resetForTesting"
    \/ last'.fn \in LimitChecks \cup Increments /\ last'.stale

\* C36: the three counters are natural numbers in every state. They are 0 in a
\* fresh GuardrailContext (at construction and after resetForTesting), and a
\* step changes a counter only by adding the positive cost of an increment of
\* that counter, by resetting it to 0 (a limit check or increment on a new UTC
\* date, or resetForTesting), or by both, the reset first; in every other step
\* each counter keeps its value.
C36_CountersNatural ==
    /\ Counters(guardrails) = <<0, 0, 0>>
    /\ [](/\ \A i \in 1..3 : Counters(guardrails)[i] \in Nat
          /\ last.fn = "resetForTesting" => Counters(guardrails) = <<0, 0, 0>>)
    /\ [][\A i \in 1..3 :
              LET old   == Counters(guardrails)[i]
                  new   == Counters(guardrails')[i]
                  added == IF last'.fn \in Increments
                           THEN Added(last'.fn, last'.arg)[i] ELSE 0
              IN  /\ added >= 0
                  /\ last'.fn \in Increments => last'.arg > 0
                  /\ new = (IF Resets THEN 0 ELSE old) + added]_vars

\* C36 witness: a modify increment on a new UTC date has taken three counters
\* that were all above 0 to 0, 0 and its cost.
C36_Witness ==
    /\ last.fn = "incrementGmailModifyCounter"
    /\ last.stale
    /\ \A i \in 1..3 : Counters(last.before)[i] > 0
    /\ Counters(guardrails) = <<0, 0, last.arg>>

----------------------------------------------------------------------------
\* Properties of getAttachment over the message it reads (SpecM).

\* C37 as stated: whatever the structure of the message, getAttachment returns
\* the attachment's data only if the attachment's own MIME type is not in the
\* blocked set and its own size is not above the maximum.
C37_DataOnlyWhenAllowed ==
    (last.fn = "getAttachment of message" /\ last.outcome = "OK")
        => /\ last.arg.part.mimeType \notin BlockedTypes
           /\ last.arg.part.size <= MaxAttachmentBytes

----------------------------------------------------------------------------
\* Properties of the server's start-up (SpecS).

\* C38 as stated: once the server has started a finite daily write limit is in
\* force. Without a guardrails file that parses, the server runs with the
\* defaults (dailyWriteLimit 50, pastEventProtectionDays 7, nothing protected,
\* no series delete); and whatever a file that parses holds, checkWriteLimit
\* rejects once enough writes have been committed on the day: here, once the
\* day's count has reached the largest limit a file or the defaults set.
C38_FiniteLimitInForce ==
    /\ trace[FirstSlot][1].info.kind # "json" => config = DefaultGuardrails
    /\ (last.fn = "checkWriteLimit" /\ guardrails.writeCount >= DefaultWriteLimit)
           => last.outcome = "DAILY_LIMIT_REACHED"

====
